---- MODULE Spec2Model ----
(***************************************************************************)
(* A model of bcp.  Of the transfer engine (pkg/transfer/transfer.go): the *)
(* error classifier isRetryableError, the retry executor retryOperation,   *)
(* the remote command channel runSSMCommand and the transfers in both      *)
(* directions.  Of the packages around it: the validators of package       *)
(* validation, LoadConstants of package config, and RootCmd.RunE, the      *)
(* command line that checks its arguments and starts a transfer.           *)
(*                                                                         *)
(* Strings are TLA+ strings read character by character; Go ints and       *)
(* time.Duration values are 64-bit two's-complement numbers kept as eight  *)
(* little-endian bytes, so that multiplication wraps as it does in Go.     *)
(***************************************************************************)
EXTENDS Integers, Sequences, FiniteSets, TLC

(***************************************************************************)
(* strings.ToLower and strings.Contains                                    *)
(***************************************************************************)

\* The upper-case letters and their lower-case images (unicode.ToLower on ASCII).
LowerOf ==
  [c \in {"A","B","C","D","E","F","G","H","I","J","K","L","M",
          "N","O","P","Q","R","S","T","U","V","W","X","Y","Z"} |->
     CASE c = "A" -> "a" [] c = "B" -> "b" [] c = "C" -> "c" [] c = "D" -> "d"
       [] c = "E" -> "e" [] c = "F" -> "f" [] c = "G" -> "g" [] c = "H" -> "h"
       [] c = "I" -> "i" [] c = "J" -> "j" [] c = "K" -> "k" [] c = "L" -> "l"
       [] c = "M" -> "m" [] c = "N" -> "n" [] c = "O" -> "o" [] c = "P" -> "p"
       [] c = "Q" -> "q" [] c = "R" -> "r" [] c = "S" -> "s" [] c = "T" -> "t"
       [] c = "U" -> "u" [] c = "V" -> "v" [] c = "W" -> "w" [] c = "X" -> "x"
       [] c = "Y" -> "y" [] c = "Z" -> "z"]

LowerChar(c) == IF c \in DOMAIN LowerOf THEN LowerOf[c] ELSE c

\* The characters lo..hi of s, each mapped to lower case (split in halves to
\* keep the evaluation shallow).
RECURSIVE LowerRange(_, _, _)
LowerRange(s, lo, hi) ==
  IF lo > hi THEN ""
  ELSE IF lo = hi THEN LowerChar(SubSeq(s, lo, lo))
  ELSE LET mid == (lo + hi) \div 2
       IN  LowerRange(s, lo, mid) \o LowerRange(s, mid + 1, hi)

\* strings.ToLower(s)
ToLower(s) == LowerRange(s, 1, Len(s))

\* strings.Contains(s, substr): substr occurs in s at some offset, case-sensitively.
Contains(s, substr) ==
  \E i \in 1..(Len(s) - Len(substr) + 1) : SubSeq(s, i, i + Len(substr) - 1) = substr

(***************************************************************************)
(* Errors.  An error value is nil or a chain of wrapped errors; the model  *)
(* keeps what the program reads of it: the code of the smithy.APIError     *)
(* that errors.As finds in the chain ("" when there is none) and the text  *)
(* that err.Error() prints for the whole chain.                            *)
(***************************************************************************)

Nil == [isNil |-> TRUE, code |-> "", text |-> ""]

\* errors.New(text)
NewError(text) == [isNil |-> FALSE, code |-> "", text |-> text]

\* A service error: Error() of a smithy API error prints its code and message.
APIError(code, message) ==
  [isNil |-> FALSE, code |-> code, text |-> "api error " \o code \o ": " \o message]

\* fmt.Errorf(prefix + "%w", err): the text grows, the chain keeps the API error.
Wrap(prefix, err) == [isNil |-> FALSE, code |-> err.code, text |-> prefix \o err.text]

\* errors.As(err, &apiErr)
IsAPIError(err) == ~err.isNil /\ err.code # ""

PermissionCodes ==
  {"AccessDenied", "AccessDeniedException", "UnauthorizedAccess",
   "Forbidden", "InvalidAccessKeyId", "SignatureDoesNotMatch",
   "UnrecognizedClientException", "InvalidClientTokenId",
   "ExpiredToken", "ExpiredTokenException", "InvalidToken"}

RetryableCodes ==
  {"RequestTimeout", "ServiceUnavailable", "ThrottlingException",
   "RequestLimitExceeded", "TooManyRequestsException", "InternalError",
   "RequestThrottled", "Throttling"}

nonRetryableStrings ==
  <<"access denied", "unauthorized", "forbidden",
    "invalid credentials", "permission denied", "not authorized">>

retryableStrings ==
  <<"connection reset", "connection refused", "timeout", "temporary failure",
    "TLS handshake timeout", "EOF", "i/o timeout">>

\* The loop body of both string scans: the needle and the text are lower-cased,
\* strings.Contains(strings.ToLower(errStr), strings.ToLower(needle)).  Lower-
\* casing maps character by character, so the lowered needle occurs in the
\* lowered text at offset i exactly when the characters agree once lowered.
MatchesFold(errStr, needle) ==
  \E i \in 1..(Len(errStr) - Len(needle) + 1) :
    \A j \in 1..Len(needle) :
      LowerChar(SubSeq(errStr, i + j - 1, i + j - 1)) = LowerChar(SubSeq(needle, j, j))

\* A slip: the failure of a remote command is always tried again.
isRetryableError_retriesRemoteFailures(err) ==
  IF err.isNil THEN FALSE
  ELSE IF Contains(err.text, "command failed with status") THEN TRUE
  ELSE IF IsAPIError(err) /\ err.code \in PermissionCodes THEN FALSE
  ELSE IF IsAPIError(err) /\ err.code \in RetryableCodes THEN TRUE
  ELSE IF \E i \in DOMAIN nonRetryableStrings :
            MatchesFold(err.text, nonRetryableStrings[i]) THEN FALSE
  ELSE IF \E i \in DOMAIN retryableStrings :
            MatchesFold(err.text, retryableStrings[i]) THEN TRUE
  ELSE FALSE

\* A slip: the needle is lower-cased but the error text is not.
isRetryableError_textNotLowered(err) ==
  IF err.isNil THEN FALSE
  ELSE IF IsAPIError(err) /\ err.code \in PermissionCodes THEN FALSE
  ELSE IF IsAPIError(err) /\ err.code \in RetryableCodes THEN TRUE
  ELSE IF \E i \in DOMAIN nonRetryableStrings :
            Contains(err.text, ToLower(nonRetryableStrings[i])) THEN FALSE
  ELSE IF \E i \in DOMAIN retryableStrings :
            Contains(err.text, ToLower(retryableStrings[i])) THEN TRUE
  ELSE FALSE

\* A slip: the default verdict is "retry".
isRetryableError_defaultRetry(err) ==
  IF err.isNil THEN FALSE
  ELSE IF IsAPIError(err) /\ err.code \in PermissionCodes THEN FALSE
  ELSE IF IsAPIError(err) /\ err.code \in RetryableCodes THEN TRUE
  ELSE IF \E i \in DOMAIN nonRetryableStrings :
            MatchesFold(err.text, nonRetryableStrings[i]) THEN FALSE
  ELSE TRUE

\* A slip: "timed out" counts as a transient failure too.
isRetryableError_retriesTimedOut(err) ==
  IF err.isNil THEN FALSE
  ELSE IF IsAPIError(err) /\ err.code \in PermissionCodes THEN FALSE
  ELSE IF IsAPIError(err) /\ err.code \in RetryableCodes THEN TRUE
  ELSE IF \E i \in DOMAIN nonRetryableStrings :
            MatchesFold(err.text, nonRetryableStrings[i]) THEN FALSE
  ELSE IF \E i \in DOMAIN retryableStrings :
            MatchesFold(err.text, retryableStrings[i]) THEN TRUE
  ELSE MatchesFold(err.text, "timed out")

\* isRetryableError(err)
isRetryableError(err) ==
  IF err.isNil THEN FALSE
  ELSE IF IsAPIError(err) /\ err.code \in PermissionCodes THEN FALSE
  ELSE IF IsAPIError(err) /\ err.code \in RetryableCodes THEN TRUE
  ELSE IF \E i \in DOMAIN nonRetryableStrings :
            MatchesFold(err.text, nonRetryableStrings[i]) THEN FALSE
  ELSE IF \E i \in DOMAIN retryableStrings :
            MatchesFold(err.text, retryableStrings[i]) THEN TRUE
  ELSE FALSE

(***************************************************************************)
(* 64-bit integers.  A Go int (on a 64-bit build) and a time.Duration are  *)
(* int64: a value is WordBytes little-endian bytes, arithmetic is modulo   *)
(* 2^64 and the top bit is the sign.                                       *)
(***************************************************************************)

WordBytes == 8

RECURSIVE ByteOf(_, _)
ByteOf(v, i) == IF i = 1 THEN v % 256 ELSE ByteOf(v \div 256, i - 1)

\* The n-byte representation of a small natural number.
Word(v, n) == [i \in 1..n |-> ByteOf(v, i)]

\* int64(v) for a small natural v
Int64(v) == Word(v, WordBytes)

\* Zero-extension of a non-negative value to n bytes.
Extend(a, n) == [i \in 1..n |-> IF i <= Len(a) THEN a[i] ELSE 0]

RECURSIVE ColumnSum(_, _, _, _)
ColumnSum(a, b, k, i) ==
  IF i > k THEN 0 ELSE a[i] * b[k - i + 1] + ColumnSum(a, b, k, i + 1)

RECURSIVE MulFrom(_, _, _, _, _)
MulFrom(a, b, k, carry, n) ==
  IF k > n THEN <<>>
  ELSE LET t == ColumnSum(a, b, k, 1) + carry
       IN  <<t % 256>> \o MulFrom(a, b, k + 1, t \div 256, n)

\* a * b modulo 2^(8n), for two n-byte values
MulWords(a, b, n) ==
  LET product[x \in {a}, y \in {b}] == MulFrom(x, y, 1, 0, n) IN product[a, b]

\* Go's a * b on int64: the product wraps modulo 2^64.
Mul64(a, b) == MulWords(a, b, WordBytes)

\* Go's 1 << s on int for an unsigned shift count s: 0 once s >= 64.
Shl1(s) == [i \in 1..WordBytes |-> IF s \div 8 = i - 1 THEN 2 ^ (s % 8) ELSE 0]

IsNegative64(a) == a[WordBytes] >= 128

IsZero64(a) == \A i \in 1..WordBytes : a[i] = 0

\* time.Second, in nanoseconds
Second == Int64(1000000000)

\* time.Duration(seconds) * time.Second
SecondsDuration(seconds) == Mul64(seconds, Second)

\* time.Sleep(d) returns at once when d <= 0; otherwise it pauses for d.
Slept(d) == IF IsNegative64(d) THEN Int64(0) ELSE d

(***************************************************************************)
(* fmt's %d                                                                *)
(***************************************************************************)

Digits == <<"0", "1", "2", "3", "4", "5", "6", "7", "8", "9">>

RECURSIVE NatToString(_)
NatToString(n) ==
  IF n < 10 THEN Digits[n + 1] ELSE NatToString(n \div 10) \o Digits[(n % 10) + 1]

\* fmt.Sprintf("%d", n)
IntToString(n) == IF n < 0 THEN "-" \o NatToString(0 - n) ELSE NatToString(n)

(***************************************************************************)
(* Bounds of the model                                                     *)
(***************************************************************************)

\* The largest maxRetries a run is started with.
MaxRetriesBound == 3

\* The largest small base delay (seconds) a run is started with.
MaxBaseDelay == 2

\* A base delay a configuration file can hold (retry_delay: 10000000000).
HugeBaseDelay == Mul64(Int64(100000), Int64(100000))

BaseDelays == {Int64(d) : d \in 1..MaxBaseDelay} \cup {HugeBaseDelay}

(***************************************************************************)
(* State                                                                   *)
(***************************************************************************)

VARIABLES
  c_pc,        \* classifier harness: "off", "ready", "done"
  c_err,       \* the error handed to isRetryableError
  c_out,       \* its verdict
  r_pc,        \* retryOperation: "off", "top", "call", "after", "done"
  maxRetries,  \* retryOperation's maxRetries
  baseDelay,   \* retryOperation's baseDelay (int, seconds)
  attempt,     \* the loop counter of retryOperation
  lastErr,     \* retryOperation's lastErr
  r_err,       \* the value returned by the latest operation()
  r_ret,       \* the value retryOperation returns
  r_log,       \* what retryOperation did so far: its sleeps and its calls of operation
  s_pc,        \* runSSMCommand: "off", "send", "loop", "fetch", "done"
  s_i,         \* the polling loop counter i of runSSMCommand
  s_sends,     \* SendCommand calls made
  s_sendErr,   \* the error SendCommand returned, Nil when it succeeded
  s_sleeps,    \* time.Sleep calls made by the polling loop
  s_slept,     \* seconds slept by the polling loop
  s_fetches,   \* GetCommandInvocation calls made
  s_fetchErrs, \* how many of them returned an error
  s_fetchErr,  \* the error of the latest failed GetCommandInvocation
  invocationOutput, \* the latest invocation fetched without error
  s_terminal,  \* some fetch so far answered with a terminal status
  s_out,       \* the string runSSMCommand returns
  s_ret,       \* the error runSSMCommand returns
  k_pc,        \* checkAWSCLIInstalled: "off", "run", "done"
  k_installed, \* the bool checkAWSCLIInstalled returns
  k_err,       \* the error checkAWSCLIInstalled returns
  t_pc,        \* the transfer: "off", the phase under way, "done"
  t_at,        \* the phase in which the transfer returned, "" before
  IsDirectory, \* transferConfig.IsDirectory (ToRemote)
  isDirectory, \* the local isDirectory of ExecuteFromRemoteWithClients
  uploadPath,  \* the object key (or key prefix) of the transfer
  t_log,       \* the calls made on the S3 and SSM clients so far, in order
  t_cleanups,  \* calls of cleanupS3Objects made
  t_ret,       \* the error the transfer returns
  g_clock,     \* the wall clock, in half seconds since the first reading
  g_keys,      \* the keys generated for FromRemote invocations, with their instants
  v_pc,        \* a function applied to one input: "off", "ready", "done"
  v_in,        \* the input
  v_out,       \* what the function returned
  cli_pc,      \* where RunE stands: "off", "source", "ssm", "bucket", "validate", "execute", "done"
  cli_args,    \* the arguments, the --bucket flag and the configured bucket
  cli_fs,      \* what os.Stat answers for the paths of the file system
  cli_calls,   \* the calls RunE and the transfer it starts have made, in order
  cli_cfg,     \* the transferConfig RunE has filled in so far
  cli_err,     \* what RunE returned
  o_pc,        \* downloadFromS3 or cleanupS3Objects: "off", "start", "page", "object", "done"
  o_fn,        \* which of the two functions runs
  o_dir,       \* its isDirectory argument
  o_pages,     \* the pages ListObjectsV2 answers with, each a sequence of keys
  o_page,      \* pages fetched so far
  o_obj,       \* objects of the current page gone through so far
  o_log,       \* the calls made on the S3 client so far, in order
  o_fs,        \* the local file system: its directories, and its files with their contents
  o_ret,       \* the error the function returns
  u_first      \* <<>>, or the one element <<r>>: what an earlier invocation of the program did

cvars == <<c_pc, c_err, c_out>>
rvars == <<r_pc, maxRetries, baseDelay, attempt, lastErr, r_err, r_ret, r_log>>
svars == <<s_pc, s_i, s_sends, s_sendErr, s_sleeps, s_slept, s_fetches, s_fetchErrs, s_fetchErr,
           invocationOutput, s_terminal, s_out, s_ret>>
kvars == <<k_pc, k_installed, k_err>>
tvars == <<t_pc, t_at, IsDirectory, isDirectory, uploadPath, t_log, t_cleanups, t_ret>>
gvars == <<g_clock, g_keys>>
vvars == <<v_pc, v_in, v_out>>
lvars == <<cli_pc, cli_args, cli_fs, cli_calls, cli_cfg, cli_err>>
ovars == <<o_pc, o_fn, o_dir, o_pages, o_page, o_obj, o_log, o_fs, o_ret>>
uvars == <<u_first>>

\* The components that stand apart from the transfer machinery.
xvars == <<gvars, vvars, lvars, ovars, uvars>>

\* What the steps of one component leave alone.
ClassifierFrame == UNCHANGED <<rvars, svars, kvars, tvars, xvars>>
RetryFrame == UNCHANGED <<cvars, svars, kvars, tvars, xvars>>
SSMFrame == UNCHANGED <<cvars, rvars, kvars, tvars, xvars>>
vars == <<c_pc, c_err, c_out,
          r_pc, maxRetries, baseDelay, attempt, lastErr, r_err, r_ret, r_log,
          s_pc, s_i, s_sends, s_sendErr, s_sleeps, s_slept, s_fetches, s_fetchErrs, s_fetchErr,
          invocationOutput, s_terminal, s_out, s_ret,
          k_pc, k_installed, k_err,
          t_pc, t_at, IsDirectory, isDirectory, uploadPath, t_log, t_cleanups, t_ret,
          g_clock, g_keys, v_pc, v_in, v_out,
          cli_pc, cli_args, cli_fs, cli_calls, cli_cfg, cli_err,
          o_pc, o_fn, o_dir, o_pages, o_page, o_obj, o_log, o_fs, o_ret,
          u_first>>

SleepEvent(k, d) == [kind |-> "sleep", attempt |-> k, d |-> d, err |-> Nil]
CallEvent(k, e) == [kind |-> "call", attempt |-> k, d |-> Int64(0), err |-> e]

ClassifierOff == c_pc = "off" /\ c_err = Nil /\ c_out = FALSE

RetryOff ==
  /\ r_pc = "off" /\ maxRetries = 0 /\ baseDelay = Int64(1) /\ attempt = 0
  /\ lastErr = Nil /\ r_err = Nil /\ r_ret = Nil /\ r_log = <<>>

\* No invocation has been fetched yet.
NoInvocation == [status |-> "", stdout |-> "", stderr |-> ""]

SSMOff ==
  /\ s_pc = "off" /\ s_i = 0 /\ s_sends = 0 /\ s_sendErr = Nil
  /\ s_sleeps = 0 /\ s_slept = 0
  /\ s_fetches = 0 /\ s_fetchErrs = 0 /\ s_fetchErr = Nil
  /\ invocationOutput = NoInvocation /\ s_terminal = FALSE
  /\ s_out = "" /\ s_ret = Nil

CheckCLIOff == k_pc = "off" /\ k_installed = FALSE /\ k_err = Nil

KeysOff == g_clock = 0 /\ g_keys = <<>>

FunctionOff == v_pc = "off" /\ v_in = "" /\ v_out = ""

CommandLineOff ==
  /\ cli_pc = "off" /\ cli_args = <<>> /\ cli_fs = <<>>
  /\ cli_calls = <<>> /\ cli_cfg = <<>> /\ cli_err = Nil

\* A local file system with nothing in it.
NoFiles == [dirs |-> {}, files |-> <<>>]

ObjectsOff ==
  /\ o_pc = "off" /\ o_fn = "" /\ o_dir = FALSE /\ o_pages = <<>>
  /\ o_page = 0 /\ o_obj = 0 /\ o_log = <<>> /\ o_fs = NoFiles /\ o_ret = Nil

\* No earlier invocation is on record.
EarlierOff == u_first = <<>>

ExtrasOff == KeysOff /\ FunctionOff /\ CommandLineOff /\ ObjectsOff /\ EarlierOff

TransferOff ==
  /\ t_pc = "off" /\ t_at = "" /\ IsDirectory = FALSE /\ isDirectory = FALSE
  /\ uploadPath = "" /\ t_log = <<>> /\ t_cleanups = 0 /\ t_ret = Nil

(***************************************************************************)
(* retryOperation(operation, maxRetries, baseDelay)                        *)
(***************************************************************************)

\* The errors the operation under retry returns in the retry specification.
OpErrors ==
  { APIError("ThrottlingException", "Rate exceeded"),
    NewError("read tcp: connection reset by peer"),
    Wrap("failed to get object from S3: ", NewError("unexpected EOF")),
    APIError("AccessDenied", "Access Denied"),
    NewError("invalid input"),
    NewError("command timed out waiting for completion") }

\* delay := time.Duration(baseDelay*(1<<uint(attempt-1))) * time.Second
BackoffDelay(base, k) == SecondsDuration(Mul64(base, Shl1(k - 1)))

\* A slip: one attempt too many.
LoopContinues_offByOne(k, n) == k <= n + 1

\* The loop condition of retryOperation.
LoopContinues(k, n) == k <= n

\* fmt.Errorf("operation failed after %d retries: %w", maxRetries, lastErr);
\* for a nil operand %w prints %!w(<nil>) and the error wraps nothing.
ExhaustedError(n, last) ==
  IF last.isNil
    THEN NewError("operation failed after " \o IntToString(n) \o " retries: %!w(<nil>)")
    ELSE Wrap("operation failed after " \o IntToString(n) \o " retries: ", last)

\* for attempt := 0; attempt <= maxRetries; attempt++ { if attempt > 0 { sleep } ...
\* and, once the loop is over, the return of the wrapping error.
RetryLoopHead ==
  /\ r_pc = "top"
  /\ IF LoopContinues(attempt, maxRetries)
       THEN /\ r_pc' = "call"
            /\ r_log' = IF attempt > 0
                          THEN Append(r_log, SleepEvent(attempt, BackoffDelay(baseDelay, attempt)))
                          ELSE r_log
            /\ UNCHANGED r_ret
       ELSE /\ r_pc' = "done"
            /\ r_ret' = ExhaustedError(maxRetries, lastErr)
            /\ UNCHANGED r_log
  /\ UNCHANGED <<maxRetries, baseDelay, attempt, lastErr, r_err>>
  /\ RetryFrame

\* err := operation(), for an operation that may return anything.
OperationReturns ==
  /\ r_pc = "call"
  /\ \E e \in OpErrors \cup {Nil} :
       /\ r_err' = e
       /\ r_log' = Append(r_log, CallEvent(attempt, e))
  /\ r_pc' = "after"
  /\ UNCHANGED <<maxRetries, baseDelay, attempt, lastErr, r_ret>>
  /\ RetryFrame

\* A slip: the classifier is not consulted, every failure is retried.
RetryAfterCall_retriesEverything ==
  /\ r_pc = "after"
  /\ IF r_err.isNil
       THEN /\ r_pc' = "done" /\ r_ret' = Nil
            /\ UNCHANGED <<lastErr, attempt>>
       ELSE /\ lastErr' = r_err
            /\ r_pc' = "top" /\ attempt' = attempt + 1 /\ UNCHANGED r_ret
  /\ UNCHANGED <<maxRetries, baseDelay, r_err, r_log>>
  /\ RetryFrame

\* A slip: lastErr keeps the first failure instead of the latest.
RetryAfterCall_keepsFirstErr ==
  /\ r_pc = "after"
  /\ IF r_err.isNil
       THEN /\ r_pc' = "done" /\ r_ret' = Nil
            /\ UNCHANGED <<lastErr, attempt>>
       ELSE /\ lastErr' = IF lastErr.isNil THEN r_err ELSE lastErr
            /\ IF ~isRetryableError(r_err)
                 THEN r_pc' = "done" /\ r_ret' = r_err /\ UNCHANGED attempt
                 ELSE r_pc' = "top" /\ attempt' = attempt + 1 /\ UNCHANGED r_ret
  /\ UNCHANGED <<maxRetries, baseDelay, r_err, r_log>>
  /\ RetryFrame

\* A slip: a success after retries still reports the last failure.
RetryAfterCall_returnsLastErr ==
  /\ r_pc = "after"
  /\ IF r_err.isNil
       THEN /\ r_pc' = "done" /\ r_ret' = lastErr
            /\ UNCHANGED <<lastErr, attempt>>
       ELSE /\ lastErr' = r_err
            /\ IF ~isRetryableError(r_err)
                 THEN r_pc' = "done" /\ r_ret' = r_err /\ UNCHANGED attempt
                 ELSE r_pc' = "top" /\ attempt' = attempt + 1 /\ UNCHANGED r_ret
  /\ UNCHANGED <<maxRetries, baseDelay, r_err, r_log>>
  /\ RetryFrame

\* if err == nil { return nil }; lastErr = err;
\* if !isRetryableError(err) { return err }; attempt++
RetryAfterCall ==
  /\ r_pc = "after"
  /\ IF r_err.isNil
       THEN /\ r_pc' = "done" /\ r_ret' = Nil
            /\ UNCHANGED <<lastErr, attempt>>
       ELSE /\ lastErr' = r_err
            /\ IF ~isRetryableError(r_err)
                 THEN r_pc' = "done" /\ r_ret' = r_err /\ UNCHANGED attempt
                 ELSE r_pc' = "top" /\ attempt' = attempt + 1 /\ UNCHANGED r_ret
  /\ UNCHANGED <<maxRetries, baseDelay, r_err, r_log>>
  /\ RetryFrame

InitRetry ==
  /\ ClassifierOff
  /\ SSMOff
  /\ CheckCLIOff
  /\ TransferOff
  /\ ExtrasOff
  /\ r_pc = "top"
  /\ maxRetries \in 0..MaxRetriesBound
  /\ baseDelay \in BaseDelays
  /\ attempt = 0 /\ lastErr = Nil /\ r_err = Nil /\ r_ret = Nil /\ r_log = <<>>

NextRetry == RetryLoopHead \/ OperationReturns \/ RetryAfterCall

SpecRetry == InitRetry /\ [][NextRetry]_vars

(***************************************************************************)
(* The classifier on its own: isRetryableError applied to one error.       *)
(***************************************************************************)

\* Error codes a service error may carry; "" is an error that is no API error.
ClassifierCodes == PermissionCodes \cup RetryableCodes \cup {"ValidationException", ""}

\* Message texts, with and without permission and transience phrases.
ClassifierMessages ==
  { "invalid input",
    "access denied", "Access Denied", "UNAUTHORIZED request", "request forbidden by policy",
    "Invalid Credentials", "open /data: permission denied", "User is not authorized to perform",
    "read tcp: connection reset by peer", "dial tcp: connection refused",
    "operation timeout", "temporary failure in name resolution",
    "net/http: TLS handshake timeout", "unexpected EOF", "read: i/o timeout",
    "command timed out waiting for completion",
    "Permission Denied: i/o timeout", "Forbidden: unexpected eof" }

\* Context that the wrapping layers of the program put in front of an error.
ClassifierContexts ==
  { "",
    "failed to get object from S3: ",
    "failed to upload ./forbidden/a.txt to S3: ",
    "failed to upload ./timeout.log to S3: " }

ClassifierInputs ==
  {Nil} \cup
  { Wrap(ctx, IF code = "" THEN NewError(msg) ELSE APIError(code, msg)) :
      ctx \in ClassifierContexts, code \in ClassifierCodes, msg \in ClassifierMessages }

\* result := isRetryableError(err)
Classify ==
  /\ c_pc = "ready"
  /\ c_out' = isRetryableError(c_err)
  /\ c_pc' = "done"
  /\ UNCHANGED c_err
  /\ ClassifierFrame

InitClassify ==
  /\ c_pc = "ready" /\ c_err \in ClassifierInputs /\ c_out = FALSE
  /\ RetryOff
  /\ SSMOff
  /\ CheckCLIOff
  /\ TransferOff
  /\ ExtrasOff

NextClassify == Classify

SpecClassify == InitClassify /\ [][NextClassify]_vars

(***************************************************************************)
(* runSSMCommand(ctx, client, instanceID, commands)                        *)
(***************************************************************************)

\* maxAttempts := 30
maxAttempts == 30

\* time.Sleep(2 * time.Second)
PollSeconds == 2

\* The values of types.CommandInvocationStatus.
Statuses ==
  {"Pending", "InProgress", "Delayed", "Success",
   "Cancelled", "TimedOut", "Failed", "Cancelling"}

\* The statuses from which an invocation does not move on.
TerminalStatuses == {"Success", "Cancelled", "TimedOut", "Failed"}

\* What a command may have printed.
Stdouts == {"", "/usr/bin/aws\n"}
Stderrs == {"", "connect timeout", "Access Denied after connect timeout"}

\* What the service may answer to SendCommand and to GetCommandInvocation.
SendErrors ==
  { APIError("ThrottlingException", "Rate exceeded"),
    APIError("AccessDeniedException", "User is not authorized to perform: ssm:SendCommand"),
    NewError("send command failed") }

FetchErrors ==
  { APIError("InvocationDoesNotExist", ""),
    NewError("read tcp: connection reset by peer") }

\* The invocations GetCommandInvocation may report: output is shown once the
\* command has come to an end.
Invocations ==
  { [status |-> st, stdout |-> "", stderr |-> ""] : st \in Statuses \ TerminalStatuses }
  \cup
  { [status |-> st, stdout |-> so, stderr |-> se] :
      st \in TerminalStatuses, so \in Stdouts, se \in Stderrs }

\* fmt.Errorf("failed to send command: %w", err)
SendFailedError(err) == Wrap("failed to send command: ", err)

\* fmt.Errorf("command failed with status %s: %s", status, stderr)
CommandFailedError(status, stderr) ==
  NewError("command failed with status " \o status \o ": " \o stderr)

\* fmt.Errorf("command timed out waiting for completion")
PollTimeoutError == NewError("command timed out waiting for completion")

\* A slip: the return after a failed SendCommand is missing, so that the
\* polling loop is entered with an empty command id.
SSMSend_pollsAfterFailure ==
  /\ s_pc = "send"
  /\ s_sends' = s_sends + 1
  /\ \/ \E e \in SendErrors : s_sendErr' = e
     \/ s_sendErr' = Nil
  /\ s_pc' = "loop" /\ s_i' = 0
  /\ UNCHANGED <<s_out, s_ret>>
  /\ UNCHANGED <<s_sleeps, s_slept, s_fetches, s_fetchErrs, s_fetchErr,
                 invocationOutput, s_terminal>>
  /\ SSMFrame

\* result, err := client.SendCommand(ctx, sendCommandInput)
\* if err != nil { return "", fmt.Errorf("failed to send command: %w", err) }
SSMSend ==
  /\ s_pc = "send"
  /\ s_sends' = s_sends + 1
  /\ \/ \E e \in SendErrors :
          /\ s_sendErr' = e
          /\ s_pc' = "done" /\ s_out' = "" /\ s_ret' = SendFailedError(e)
          /\ UNCHANGED s_i
     \/ /\ s_sendErr' = Nil
        /\ s_pc' = "loop" /\ s_i' = 0
        /\ UNCHANGED <<s_out, s_ret>>
  /\ UNCHANGED <<s_sleeps, s_slept, s_fetches, s_fetchErrs, s_fetchErr,
                 invocationOutput, s_terminal>>
  /\ SSMFrame

\* A slip: one poll fewer than maxAttempts.
PollContinues_oneShort(k) == k < maxAttempts - 1

\* A slip: one poll more than maxAttempts.
PollContinues_onePollMore(k) == k < maxAttempts + 1

\* The condition of the polling loop.
PollContinues(k) == k < maxAttempts

\* for i := 0; i < maxAttempts; i++ { time.Sleep(2 * time.Second) ...
\* and, once the loop is over, the return of the timeout error.
SSMLoopHead ==
  /\ s_pc = "loop"
  /\ IF PollContinues(s_i)
       THEN /\ s_sleeps' = s_sleeps + 1
            /\ s_slept' = s_slept + PollSeconds
            /\ s_pc' = "fetch"
            /\ UNCHANGED <<s_out, s_ret>>
       ELSE /\ s_pc' = "done" /\ s_out' = "" /\ s_ret' = PollTimeoutError
            /\ UNCHANGED <<s_sleeps, s_slept>>
  /\ UNCHANGED <<s_i, s_sends, s_sendErr, s_fetches, s_fetchErrs, s_fetchErr,
                 invocationOutput, s_terminal>>
  /\ SSMFrame

\* A slip: Success is not told apart from the statuses still under way.
SSMSwitch_ignoresSuccess(inv) ==
  IF inv.status \in {"Failed", "Cancelled", "TimedOut"}
    THEN /\ s_pc' = "done" /\ s_out' = ""
         /\ s_ret' = CommandFailedError(inv.status, inv.stderr)
         /\ UNCHANGED s_i
    ELSE /\ s_pc' = "loop" /\ s_i' = s_i + 1
         /\ UNCHANGED <<s_out, s_ret>>

\* A slip: a failed command hands back what it wrote to standard output.
SSMSwitch_failureKeepsStdout(inv) ==
  IF inv.status = "Success"
    THEN /\ s_pc' = "done" /\ s_out' = inv.stdout /\ s_ret' = Nil
         /\ UNCHANGED s_i
    ELSE IF inv.status \in {"Failed", "Cancelled", "TimedOut"}
    THEN /\ s_pc' = "done" /\ s_out' = inv.stdout
         /\ s_ret' = CommandFailedError(inv.status, inv.stderr)
         /\ UNCHANGED s_i
    ELSE /\ s_pc' = "loop" /\ s_i' = s_i + 1
         /\ UNCHANGED <<s_out, s_ret>>

\* switch status { case Success: return stdout, nil
\*                 case Failed, Cancelled, TimedOut: return "", error }
SSMSwitch(inv) ==
  IF inv.status = "Success"
    THEN /\ s_pc' = "done" /\ s_out' = inv.stdout /\ s_ret' = Nil
         /\ UNCHANGED s_i
    ELSE IF inv.status \in {"Failed", "Cancelled", "TimedOut"}
    THEN /\ s_pc' = "done" /\ s_out' = ""
         /\ s_ret' = CommandFailedError(inv.status, inv.stderr)
         /\ UNCHANGED s_i
    ELSE /\ s_pc' = "loop" /\ s_i' = s_i + 1
         /\ UNCHANGED <<s_out, s_ret>>

\* A slip: a failed GetCommandInvocation ends the run with its error instead
\* of going on to the next poll.
SSMFetch_returnsFetchError ==
  /\ s_pc = "fetch"
  /\ s_fetches' = s_fetches + 1
  /\ \/ \E e \in FetchErrors :
          /\ s_fetchErr' = e
          /\ s_fetchErrs' = s_fetchErrs + 1
          /\ s_pc' = "done" /\ s_out' = "" /\ s_ret' = e
          /\ UNCHANGED <<s_i, invocationOutput, s_terminal>>
     \/ \E inv \in Invocations :
          /\ invocationOutput' = inv
          /\ s_terminal' = (s_terminal \/ inv.status \in TerminalStatuses)
          /\ SSMSwitch(inv)
          /\ UNCHANGED <<s_fetchErrs, s_fetchErr>>
  /\ UNCHANGED <<s_sends, s_sendErr, s_sleeps, s_slept>>
  /\ SSMFrame

\* invocationOutput, err := client.GetCommandInvocation(...)
\* if err != nil { continue }; switch status { ... }
SSMFetch ==
  /\ s_pc = "fetch"
  /\ s_fetches' = s_fetches + 1
  /\ \/ \E e \in FetchErrors :
          /\ s_fetchErr' = e
          /\ s_fetchErrs' = s_fetchErrs + 1
          /\ s_pc' = "loop" /\ s_i' = s_i + 1
          /\ UNCHANGED <<invocationOutput, s_terminal, s_out, s_ret>>
     \/ \E inv \in Invocations :
          /\ invocationOutput' = inv
          /\ s_terminal' = (s_terminal \/ inv.status \in TerminalStatuses)
          /\ SSMSwitch(inv)
          /\ UNCHANGED <<s_fetchErrs, s_fetchErr>>
  /\ UNCHANGED <<s_sends, s_sendErr, s_sleeps, s_slept>>
  /\ SSMFrame

InitSSM ==
  /\ ClassifierOff
  /\ RetryOff
  /\ CheckCLIOff
  /\ TransferOff
  /\ ExtrasOff
  /\ s_pc = "send" /\ s_i = 0 /\ s_sends = 0 /\ s_sendErr = Nil
  /\ s_sleeps = 0 /\ s_slept = 0
  /\ s_fetches = 0 /\ s_fetchErrs = 0 /\ s_fetchErr = Nil
  /\ invocationOutput = NoInvocation /\ s_terminal = FALSE
  /\ s_out = "" /\ s_ret = Nil

NextSSM == SSMSend \/ SSMLoopHead \/ SSMFetch

SpecSSM == InitSSM /\ [][NextSSM]_vars

(***************************************************************************)
(* checkAWSCLIInstalled(ctx, client, instanceID)                           *)
(***************************************************************************)

\* What checkAWSCLIInstalled makes of (output, err) as returned by
\* runSSMCommand(..., []string{"which aws"}).
AWSCLIVerdict(output, err) ==
  IF ~err.isNil
    THEN IF Contains(err.text, "command failed")
           THEN [installed |-> FALSE, err |-> Nil]
           ELSE [installed |-> FALSE, err |-> err]
    ELSE [installed |-> Contains(output, "/aws"), err |-> Nil]

\* The return of checkAWSCLIInstalled, once its runSSMCommand has returned.
checkAWSCLIInstalled ==
  /\ k_pc = "run" /\ s_pc = "done"
  /\ k_pc' = "done"
  /\ k_installed' = AWSCLIVerdict(s_out, s_ret).installed
  /\ k_err' = AWSCLIVerdict(s_out, s_ret).err
  /\ UNCHANGED <<cvars, rvars, svars, tvars, xvars>>

InitCheckCLI ==
  /\ ClassifierOff
  /\ RetryOff
  /\ s_pc = "send" /\ s_i = 0 /\ s_sends = 0 /\ s_sendErr = Nil
  /\ s_sleeps = 0 /\ s_slept = 0
  /\ s_fetches = 0 /\ s_fetchErrs = 0 /\ s_fetchErr = Nil
  /\ invocationOutput = NoInvocation /\ s_terminal = FALSE
  /\ s_out = "" /\ s_ret = Nil
  /\ k_pc = "run" /\ k_installed = FALSE /\ k_err = Nil
  /\ TransferOff
  /\ ExtrasOff

NextCheckCLI == SSMSend \/ SSMLoopHead \/ SSMFetch \/ checkAWSCLIInstalled

SpecCheckCLI == InitCheckCLI /\ [][NextCheckCLI]_vars

(***************************************************************************)
(* Characters, and strings.Split                                           *)
(***************************************************************************)

LowerLetters ==
  {"a", "b", "c", "d", "e", "f", "g", "h", "i", "j", "k", "l", "m",
   "n", "o", "p", "q", "r", "s", "t", "u", "v", "w", "x", "y", "z"}

DecimalDigits == {"0", "1", "2", "3", "4", "5", "6", "7", "8", "9"}

\* The character class [0-9a-f]
HexDigits == DecimalDigits \cup {"a", "b", "c", "d", "e", "f"}

\* Every character of s is of the class.
AllIn(s, class) == \A j \in 1..Len(s) : SubSeq(s, j, j) \in class

\* The positions of the character ch in s.
PositionsOf(s, ch) == { j \in 1..Len(s) : SubSeq(s, j, j) = ch }

\* strings.Split(s, sep) for a separator sep of one character
RECURSIVE Split(_, _)
Split(s, sep) ==
  IF PositionsOf(s, sep) = {}
    THEN <<s>>
    ELSE LET j == CHOOSE k \in PositionsOf(s, sep) : \A l \in PositionsOf(s, sep) : k <= l
         IN <<SubSeq(s, 1, j - 1)>> \o Split(SubSeq(s, j + 1, Len(s)), sep)

(***************************************************************************)
(* path/filepath, on Unix                                                  *)
(***************************************************************************)

\* strings.Join(elems, sep)
RECURSIVE JoinWith(_, _)
JoinWith(elems, sep) ==
  IF Len(elems) = 0 THEN ""
  ELSE IF Len(elems) = 1 THEN elems[1]
  ELSE elems[1] \o sep \o JoinWith(Tail(elems), sep)

\* The elements Clean keeps of the elements comps, after those of kept:
\* empty elements and "." are dropped, ".." takes back the element before
\* it, stays when there is none to take back, and is dropped at the root.
RECURSIVE CleanElements(_, _, _)
CleanElements(comps, kept, rooted) ==
  IF Len(comps) = 0 THEN kept
  ELSE LET c == Head(comps) IN
    IF c = "" \/ c = "."
      THEN CleanElements(Tail(comps), kept, rooted)
    ELSE IF c = ".."
      THEN IF Len(kept) > 0 /\ kept[Len(kept)] # ".."
             THEN CleanElements(Tail(comps), SubSeq(kept, 1, Len(kept) - 1), rooted)
           ELSE IF rooted
             THEN CleanElements(Tail(comps), kept, rooted)
           ELSE CleanElements(Tail(comps), Append(kept, c), rooted)
    ELSE CleanElements(Tail(comps), Append(kept, c), rooted)

\* filepath.Clean(path)
Clean(path) ==
  LET rooted == Len(path) >= 1 /\ SubSeq(path, 1, 1) = "/"
      kept == CleanElements(Split(path, "/"), <<>>, rooted)
  IN  IF rooted THEN "/" \o JoinWith(kept, "/")
      ELSE IF Len(kept) = 0 THEN "."
      ELSE JoinWith(kept, "/")

\* The position of the last "/" of path, 0 when there is none.
LastSlash(path) ==
  IF PositionsOf(path, "/") = {} THEN 0
  ELSE CHOOSE k \in PositionsOf(path, "/") : \A l \in PositionsOf(path, "/") : l <= k

\* filepath.Dir(path): all but the last element of path, cleaned
Dir(path) == Clean(SubSeq(path, 1, LastSlash(path)))

\* filepath.Join(dir, name), for two elements that are not empty
Join(dir, name) == Clean(dir \o "/" \o name)

\* filepath.Rel(basepath, targpath), for the target paths that lie at or
\* below the base path
Rel(basepath, targpath) ==
  LET base == Clean(basepath)
      targ == Clean(targpath)
  IN  IF targ = base THEN "."
      ELSE IF base = "." THEN targ
      ELSE IF base = "/" THEN SubSeq(targ, 2, Len(targ))
      ELSE SubSeq(targ, Len(base) + 2, Len(targ))

(***************************************************************************)
(* What the transfers are given, and what they call                        *)
(***************************************************************************)

\* transferConfig.BucketName, .SSMInstanceID, .Destination
BucketName == "bcp-bucket"
SSMInstanceID == "i-0abc"
Destination == "/tmp/dest"

\* transferConfig.Source of a ToRemote transfer: a directory or a file.
LocalSource(dir) == IF dir THEN "./data" ELSE "./report.txt"

\* The regular files filepath.Walk meets below a local directory, in its
\* lexical order, relative to that directory.
WalkFiles == <<"a.txt", "sub/b.txt">>

\* strings.TrimPrefix(s, prefix)
TrimPrefix(s, prefix) ==
  IF Len(s) >= Len(prefix) /\ SubSeq(s, 1, Len(prefix)) = prefix
    THEN SubSeq(s, Len(prefix) + 1, Len(s))
    ELSE s

\* path without the slashes it ends with
RECURSIVE TrimSlashes(_)
TrimSlashes(path) ==
  IF Len(path) >= 1 /\ SubSeq(path, Len(path), Len(path)) = "/"
    THEN TrimSlashes(SubSeq(path, 1, Len(path) - 1))
    ELSE path

\* filepath.Base(path): the last element of path
Base(path) ==
  IF path = "" THEN "."
  ELSE LET stripped == TrimSlashes(path) IN
    IF stripped = "" THEN "/"
    ELSE SubSeq(stripped, LastSlash(stripped) + 1, Len(stripped))

\* s3URL := fmt.Sprintf("s3://%s/%s", transferConfig.BucketName, uploadPath)
S3URL(key) == "s3://" \o BucketName \o "/" \o key

\* One call on a client: the operation and the key, prefix or command given.
\* ok tells whether the call (for a command: its run) ended without error.
PutEvent(key, ok) == [op |-> "PutObject", arg |-> key, ok |-> ok]
GetEvent(key, ok) == [op |-> "GetObject", arg |-> key, ok |-> ok]
ListEvent(prefix, ok) == [op |-> "ListObjectsV2", arg |-> prefix, ok |-> ok]
DeleteEvent(key, ok) == [op |-> "DeleteObject", arg |-> key, ok |-> ok]
SendEvent(command, ok) == [op |-> "SendCommand", arg |-> command, ok |-> ok]

\* What one call of runSSMCommand returns, for a command whose standard
\* output may be any of outs: the returns of SSMSend, SSMSwitch and
\* SSMLoopHead.
RunOutcomes(outs) ==
  { [out |-> so, err |-> Nil] : so \in outs }
  \cup { [out |-> "", err |-> SendFailedError(e)] : e \in SendErrors }
  \cup { [out |-> "", err |-> CommandFailedError(st, se)] :
           st \in {"Failed", "Cancelled", "TimedOut"}, se \in Stderrs }
  \cup { [out |-> "", err |-> PollTimeoutError] }

\* The returns of runSSMCommand the transfers are run against: every
\* success, a send failure that is retried and one that is not, a remote
\* failure that is retried (its stderr speaks of a timeout) and one that is
\* not (its stderr says nothing, or speaks of a refusal too), and the polling
\* timeout.
CommandOutcomes(outs) ==
  { [out |-> so, err |-> Nil] : so \in outs }
  \cup { [out |-> "", err |-> SendFailedError(e)] :
           e \in { APIError("ThrottlingException", "Rate exceeded"),
                   NewError("send command failed") } }
  \cup { [out |-> "", err |-> CommandFailedError("Failed", "")],
         [out |-> "", err |-> CommandFailedError("TimedOut", "connect timeout")],
         [out |-> "", err |-> CommandFailedError("Cancelled",
                                "Access Denied after connect timeout")],
         [out |-> "", err |-> PollTimeoutError] }

\* What the S3 client may answer to a call that fails.
S3Errors ==
  { NewError("read tcp: connection reset by peer"),
    APIError("AccessDenied", "Access Denied") }

\* The start of a call of retryOperation with the configured
\* transferConfig.MaxRetries and transferConfig.RetryDelay.
RetryStarts ==
  /\ r_pc' = "top" /\ attempt' = 0 /\ lastErr' = Nil /\ r_err' = Nil
  /\ r_ret' = Nil /\ r_log' = <<>>
  /\ UNCHANGED <<maxRetries, baseDelay>>

\* No call of retryOperation is under way.
RetryIdle ==
  /\ r_pc' = "off" /\ attempt' = 0 /\ lastErr' = Nil /\ r_err' = Nil
  /\ r_ret' = Nil /\ r_log' = <<>>
  /\ UNCHANGED <<maxRetries, baseDelay>>

\* The operation handed to retryOperation has returned e.
OperationReturned(e) ==
  /\ r_pc = "call"
  /\ r_err' = e
  /\ r_log' = Append(r_log, CallEvent(attempt, e))
  /\ r_pc' = "after"
  /\ UNCHANGED <<maxRetries, baseDelay, attempt, lastErr, r_ret>>

\* What the steps of a transfer leave alone.
TransferFrame == UNCHANGED <<cvars, svars, kvars, xvars>>

\* The transfer returns err.
TransferReturns(err) ==
  /\ t_pc' = "done" /\ t_at' = t_pc /\ t_ret' = err
  /\ UNCHANGED rvars

(***************************************************************************)
(* ExecuteToRemoteWithClients(ctx, transferConfig, s3Client, ssmClient)    *)
(***************************************************************************)

\* The keys uploadToS3 puts for localPath, in order: filepath.Base(localPath)
\* for a file, the path relative to filepath.Dir(localPath) for each file of
\* a directory.
UploadKeys(localPath, dir) ==
  IF dir
    THEN [j \in 1..Len(WalkFiles) |->
            Rel(Dir(localPath), Join(localPath, WalkFiles[j]))]
    ELSE <<Base(localPath)>>

\* The files those keys are read from.
UploadFiles(localPath, dir) ==
  IF dir
    THEN [j \in 1..Len(WalkFiles) |-> Join(localPath, WalkFiles[j])]
    ELSE <<localPath>>

\* fmt.Errorf("failed to stat %s: %w", localPath, err)
StatError(localPath) ==
  Wrap("failed to stat " \o localPath \o ": ",
       NewError("stat " \o localPath \o ": no such file or directory"))

\* fmt.Errorf("failed to upload %s to S3: %w", filePath, err)
PutFailedError(filePath, err) == Wrap("failed to upload " \o filePath \o " to S3: ", err)

\* One call of uploadToS3 by retryOperation: os.Stat fails, or the files are
\* put one after the other until a PutObject fails.
uploadToS3 ==
  /\ t_pc = "upload" /\ r_pc = "call"
  /\ LET keys == UploadKeys(uploadPath, IsDirectory)
         files == UploadFiles(uploadPath, IsDirectory)
         puts(n, bad) == [j \in 1..n |-> PutEvent(keys[j], j # bad)]
     IN \/ /\ OperationReturned(StatError(uploadPath))
           /\ UNCHANGED t_log
        \/ /\ OperationReturned(Nil)
           /\ t_log' = t_log \o puts(Len(keys), 0)
        \/ \E n \in 1..Len(keys) : \E e \in S3Errors :
             /\ OperationReturned(PutFailedError(files[n], e))
             /\ t_log' = t_log \o puts(n, n)
  /\ UNCHANGED <<t_pc, t_at, IsDirectory, isDirectory, uploadPath, t_cleanups, t_ret>>
  /\ TransferFrame

\* if err := retryOperation(uploadToS3 ...); err != nil {
\*   return fmt.Errorf("failed to upload to S3: %w", err) }
ToRemoteUploaded ==
  /\ t_pc = "upload" /\ r_pc = "done"
  /\ IF ~r_ret.isNil
       THEN TransferReturns(Wrap("failed to upload to S3: ", r_ret))
       ELSE t_pc' = "check" /\ RetryIdle /\ UNCHANGED <<t_at, t_ret>>
  /\ UNCHANGED <<IsDirectory, isDirectory, uploadPath, t_log, t_cleanups>>
  /\ TransferFrame

\* fmt.Errorf("failed to check AWS CLI installation: %w", err)
CheckFailedError(err) == Wrap("failed to check AWS CLI installation: ", err)

\* fmt.Errorf("AWS CLI is not installed on instance %s", transferConfig.SSMInstanceID)
NotInstalledError == NewError("AWS CLI is not installed on instance " \o SSMInstanceID)

\* A slip: the answer of the check is not looked at.
CheckGate_ignoresAbsent(v) ==
  IF ~v.err.isNil THEN CheckFailedError(v.err) ELSE Nil

\* What the transfer returns on the verdict v of checkAWSCLIInstalled, Nil
\* when it goes on.
CheckGate(v) ==
  IF ~v.err.isNil THEN CheckFailedError(v.err)
  ELSE IF ~v.installed THEN NotInstalledError
  ELSE Nil

\* A slip: a check that failed on a retryable error is run again.
ToRemoteCheck_runsAgain ==
  /\ t_pc = "check"
  /\ \E o \in CommandOutcomes(Stdouts) :
       LET v == AWSCLIVerdict(o.out, o.err)
           gate == CheckGate(v)
       IN /\ k_pc' = "done" /\ k_installed' = v.installed /\ k_err' = v.err
          /\ t_log' = Append(t_log, SendEvent("which aws", o.err.isNil))
          /\ IF ~gate.isNil /\ isRetryableError(gate) /\ Len(t_log) < 2
               THEN UNCHANGED <<t_pc, t_at, t_ret>> /\ UNCHANGED rvars
               ELSE IF ~gate.isNil
                 THEN TransferReturns(gate)
                 ELSE t_pc' = "fetch" /\ RetryStarts /\ UNCHANGED <<t_at, t_ret>>
  /\ UNCHANGED <<IsDirectory, isDirectory, uploadPath, t_cleanups>>
  /\ UNCHANGED <<cvars, svars, xvars>>

\* awsCLICheck, err := checkAWSCLIInstalled(...), with its two early returns.
ToRemoteCheck ==
  /\ t_pc = "check"
  /\ \E o \in CommandOutcomes(Stdouts) :
       LET v == AWSCLIVerdict(o.out, o.err)
           gate == CheckGate(v)
       IN /\ k_pc' = "done" /\ k_installed' = v.installed /\ k_err' = v.err
          /\ t_log' = Append(t_log, SendEvent("which aws", o.err.isNil))
          /\ IF ~gate.isNil
               THEN TransferReturns(gate)
               ELSE t_pc' = "fetch" /\ RetryStarts /\ UNCHANGED <<t_at, t_ret>>
  /\ UNCHANGED <<IsDirectory, isDirectory, uploadPath, t_cleanups>>
  /\ UNCHANGED <<cvars, svars, xvars>>

\* A slip: --recursive is never given.
CopyCommand_neverRecursive(from, to, dir) == "aws s3 cp " \o from \o " " \o to

\* fmt.Sprintf("aws s3 cp %s %s --recursive", from, to) for a directory,
\* fmt.Sprintf("aws s3 cp %s %s", from, to) for a file
CopyCommand(from, to, dir) ==
  IF dir
    THEN "aws s3 cp " \o from \o " " \o to \o " --recursive"
    ELSE "aws s3 cp " \o from \o " " \o to

\* One call by retryOperation of runSSMCommand with downloadCommand.
ToRemoteFetch ==
  /\ t_pc = "fetch"
  /\ \E o \in CommandOutcomes(Stdouts) :
       /\ OperationReturned(o.err)
       /\ t_log' = Append(t_log,
            SendEvent(CopyCommand(S3URL(uploadPath), Destination, IsDirectory), o.err.isNil))
  /\ UNCHANGED <<t_pc, t_at, IsDirectory, isDirectory, uploadPath, t_cleanups, t_ret>>
  /\ TransferFrame

\* if err := retryOperation(runSSMCommand(downloadCommand) ...); err != nil {
\*   return fmt.Errorf("failed to download from S3 to remote instance: %w", err) }
ToRemoteFetched ==
  /\ t_pc = "fetch" /\ r_pc = "done"
  /\ IF ~r_ret.isNil
       THEN TransferReturns(Wrap("failed to download from S3 to remote instance: ", r_ret))
       ELSE t_pc' = "verify" /\ RetryIdle /\ UNCHANGED <<t_at, t_ret>>
  /\ UNCHANGED <<IsDirectory, isDirectory, uploadPath, t_log, t_cleanups>>
  /\ TransferFrame

\* A slip: a listing that fails fails the transfer.
ToRemoteVerify_returnsListingError ==
  /\ t_pc = "verify"
  /\ \E o \in CommandOutcomes(Stdouts) :
       /\ TransferReturns(o.err)
       /\ t_log' = Append(t_log, SendEvent("ls -la " \o Destination, o.err.isNil))
  /\ UNCHANGED <<IsDirectory, isDirectory, uploadPath, t_cleanups>>
  /\ TransferFrame

\* output, err := runSSMCommand(confirmCommand); its error is logged only;
\* return nil
ToRemoteVerify ==
  /\ t_pc = "verify"
  /\ \E o \in CommandOutcomes(Stdouts) :
       /\ TransferReturns(Nil)
       /\ t_log' = Append(t_log, SendEvent("ls -la " \o Destination, o.err.isNil))
  /\ UNCHANGED <<IsDirectory, isDirectory, uploadPath, t_cleanups>>
  /\ TransferFrame

InitToRemote ==
  /\ ClassifierOff
  /\ SSMOff
  /\ CheckCLIOff
  /\ ExtrasOff
  /\ r_pc = "top"
  /\ maxRetries \in 0..MaxRetriesBound
  /\ baseDelay = Int64(1)
  /\ attempt = 0 /\ lastErr = Nil /\ r_err = Nil /\ r_ret = Nil /\ r_log = <<>>
  /\ t_pc = "upload" /\ t_at = ""
  /\ IsDirectory \in BOOLEAN
  /\ isDirectory = FALSE
  /\ uploadPath = TrimPrefix(LocalSource(IsDirectory), "./")
  /\ t_log = <<>> /\ t_cleanups = 0 /\ t_ret = Nil

NextToRemote ==
  \/ RetryLoopHead \/ RetryAfterCall
  \/ uploadToS3 \/ ToRemoteUploaded \/ ToRemoteCheck
  \/ ToRemoteFetch \/ ToRemoteFetched \/ ToRemoteVerify

SpecToRemote == InitToRemote /\ [][NextToRemote]_vars

(***************************************************************************)
(* ExecuteFromRemoteWithClients(ctx, transferConfig, s3Client, ssmClient)  *)
(***************************************************************************)

\* transferConfig.Source of a FromRemote transfer
RemoteSource == "/var/log/app"

\* What time.Now().Unix() may answer.
UnixTimes == {1762275600, 1762275601}

\* uploadPath := fmt.Sprintf("bcp-download-%d", time.Now().Unix())
GeneratedKey(now) == "bcp-download-" \o IntToString(now)

\* What the test-and-echo command prints.
ProbeOutputs == {"directory\n", "file\n"}

\* fmt.Sprintf("test -d %s && echo 'directory' || echo 'file'", source)
CheckDirCommand(source) == "test -d " \o source \o " && echo 'directory' || echo 'file'"

IsSpace(ch) == ch \in {" ", "\n", "\t", "\r"}

\* strings.TrimSpace(s)
RECURSIVE TrimSpace(_)
TrimSpace(s) ==
  IF Len(s) = 0 THEN s
  ELSE IF IsSpace(SubSeq(s, 1, 1)) THEN TrimSpace(SubSeq(s, 2, Len(s)))
  ELSE IF IsSpace(SubSeq(s, Len(s), Len(s))) THEN TrimSpace(SubSeq(s, 1, Len(s) - 1))
  ELSE s

\* The keys ListObjectsV2 reports under a prefix the remote instance copied
\* to: one key for a file, the key of each file (and a marker for the
\* prefix itself) for a directory.
ObjectsUnder(prefix, dir) ==
  IF dir
    THEN <<prefix \o "/", prefix \o "/a.txt", prefix \o "/sub/b.txt">>
    ELSE <<prefix>>

\* A slip: every verdict of the check lets the transfer go on.
FromRemoteCheck_goesOn ==
  /\ t_pc = "precheck"
  /\ \E o \in CommandOutcomes(Stdouts) :
       LET v == AWSCLIVerdict(o.out, o.err)
       IN /\ k_pc' = "done" /\ k_installed' = v.installed /\ k_err' = v.err
          /\ t_log' = Append(t_log, SendEvent("which aws", o.err.isNil))
          /\ t_pc' = "probe" /\ UNCHANGED <<t_at, t_ret>> /\ UNCHANGED rvars
  /\ UNCHANGED <<IsDirectory, isDirectory, uploadPath, t_cleanups>>
  /\ UNCHANGED <<cvars, svars, xvars>>

\* awsCLICheck, err := checkAWSCLIInstalled(...), with its two early returns.
FromRemoteCheck ==
  /\ t_pc = "precheck"
  /\ \E o \in CommandOutcomes(Stdouts) :
       LET v == AWSCLIVerdict(o.out, o.err)
           gate == CheckGate(v)
       IN /\ k_pc' = "done" /\ k_installed' = v.installed /\ k_err' = v.err
          /\ t_log' = Append(t_log, SendEvent("which aws", o.err.isNil))
          /\ IF ~gate.isNil
               THEN TransferReturns(gate)
               ELSE t_pc' = "probe" /\ UNCHANGED <<t_at, t_ret>> /\ UNCHANGED rvars
  /\ UNCHANGED <<IsDirectory, isDirectory, uploadPath, t_cleanups>>
  /\ UNCHANGED <<cvars, svars, xvars>>

\* output, err := runSSMCommand(checkDirCommand);
\* if err != nil { return fmt.Errorf("failed to check if source is directory: %w", err) }
\* isDirectory := strings.TrimSpace(output) == "directory"
\* s_out and s_ret keep what runSSMCommand returned for the probe.
FromRemoteProbe ==
  /\ t_pc = "probe"
  /\ \E o \in CommandOutcomes(ProbeOutputs) :
       /\ t_log' = Append(t_log, SendEvent(CheckDirCommand(RemoteSource), o.err.isNil))
       /\ IF ~o.err.isNil
            THEN /\ TransferReturns(Wrap("failed to check if source is directory: ", o.err))
                 /\ UNCHANGED isDirectory
            ELSE /\ isDirectory' = (TrimSpace(o.out) = "directory")
                 /\ t_pc' = "push" /\ RetryStarts /\ UNCHANGED <<t_at, t_ret>>
       /\ s_out' = o.out /\ s_ret' = o.err
  /\ UNCHANGED <<IsDirectory, uploadPath, t_cleanups>>
  /\ UNCHANGED <<s_pc, s_i, s_sends, s_sendErr, s_sleeps, s_slept, s_fetches, s_fetchErrs,
                 s_fetchErr, invocationOutput, s_terminal>>
  /\ UNCHANGED <<cvars, kvars, xvars>>

\* One call by retryOperation of runSSMCommand with uploadCommand.
FromRemotePush ==
  /\ t_pc = "push"
  /\ \E o \in CommandOutcomes({""}) :
       /\ OperationReturned(o.err)
       /\ t_log' = Append(t_log,
            SendEvent(CopyCommand(RemoteSource, S3URL(uploadPath), isDirectory), o.err.isNil))
  /\ UNCHANGED <<t_pc, t_at, IsDirectory, isDirectory, uploadPath, t_cleanups, t_ret>>
  /\ TransferFrame

\* A slip: the download is left out and the cleanup follows the copy.
FromRemotePushed_skipsDownload ==
  /\ t_pc = "push" /\ r_pc = "done"
  /\ IF ~r_ret.isNil
       THEN TransferReturns(Wrap("failed to upload from remote instance to S3: ", r_ret))
       ELSE t_pc' = "cleanup" /\ RetryIdle /\ UNCHANGED <<t_at, t_ret>>
  /\ UNCHANGED <<IsDirectory, isDirectory, uploadPath, t_log, t_cleanups>>
  /\ TransferFrame

\* if err := retryOperation(runSSMCommand(uploadCommand) ...); err != nil {
\*   return fmt.Errorf("failed to upload from remote instance to S3: %w", err) }
FromRemotePushed ==
  /\ t_pc = "push" /\ r_pc = "done"
  /\ IF ~r_ret.isNil
       THEN TransferReturns(Wrap("failed to upload from remote instance to S3: ", r_ret))
       ELSE t_pc' = "download" /\ RetryStarts /\ UNCHANGED <<t_at, t_ret>>
  /\ UNCHANGED <<IsDirectory, isDirectory, uploadPath, t_log, t_cleanups>>
  /\ TransferFrame

\* The keys downloadDirectory fetches of those listed: all but the prefix
\* itself and the prefix followed by "/".
DownloadKeys(prefix, keys) ==
  SelectSeq(keys, LAMBDA key : key # prefix /\ key # prefix \o "/")

\* What one call of downloadFromS3 does and returns: for a file one
\* GetObject; for a directory one ListObjectsV2 and, if it succeeds, one
\* GetObject per key until one fails.
DownloadOutcomes(prefix, dir) ==
  IF ~dir
    THEN { [calls |-> <<GetEvent(prefix, TRUE)>>, err |-> Nil] }
         \cup { [calls |-> <<GetEvent(prefix, FALSE)>>,
                 err |-> Wrap("failed to get object from S3: ", e)] : e \in S3Errors }
    ELSE LET keys == DownloadKeys(prefix, ObjectsUnder(prefix, TRUE))
             gets(n, bad) == [j \in 1..n |-> GetEvent(keys[j], j # bad)]
         IN { [calls |-> <<ListEvent(prefix, FALSE)>>,
               err |-> Wrap("failed to list S3 objects: ", e)] : e \in S3Errors }
            \cup { [calls |-> <<ListEvent(prefix, TRUE)>> \o gets(Len(keys), 0), err |-> Nil] }
            \cup { [calls |-> <<ListEvent(prefix, TRUE)>> \o gets(n, n),
                    err |-> Wrap("failed to get object from S3: ", e)] :
                     n \in 1..Len(keys), e \in S3Errors }

\* A slip: the download reads the flag of the request.
downloadFromS3_readsRequest ==
  /\ t_pc = "download"
  /\ \E d \in DownloadOutcomes(uploadPath, IsDirectory) :
       /\ OperationReturned(d.err)
       /\ t_log' = t_log \o d.calls
  /\ UNCHANGED <<t_pc, t_at, IsDirectory, isDirectory, uploadPath, t_cleanups, t_ret>>
  /\ TransferFrame

\* One call of downloadFromS3 by retryOperation.
downloadFromS3 ==
  /\ t_pc = "download"
  /\ \E d \in DownloadOutcomes(uploadPath, isDirectory) :
       /\ OperationReturned(d.err)
       /\ t_log' = t_log \o d.calls
  /\ UNCHANGED <<t_pc, t_at, IsDirectory, isDirectory, uploadPath, t_cleanups, t_ret>>
  /\ TransferFrame

\* A slip: a download that failed is followed by the cleanup all the same.
FromRemoteDownloaded_cleansUpOnFailure ==
  /\ t_pc = "download" /\ r_pc = "done"
  /\ t_pc' = "cleanup" /\ UNCHANGED rvars /\ UNCHANGED <<t_at, t_ret>>
  /\ UNCHANGED <<IsDirectory, isDirectory, uploadPath, t_log, t_cleanups>>
  /\ TransferFrame

\* if err := retryOperation(downloadFromS3 ...); err != nil {
\*   return fmt.Errorf("failed to download from S3: %w", err) }
FromRemoteDownloaded ==
  /\ t_pc = "download" /\ r_pc = "done"
  /\ IF ~r_ret.isNil
       THEN TransferReturns(Wrap("failed to download from S3: ", r_ret))
       ELSE t_pc' = "cleanup" /\ RetryIdle /\ UNCHANGED <<t_at, t_ret>>
  /\ UNCHANGED <<IsDirectory, isDirectory, uploadPath, t_log, t_cleanups>>
  /\ TransferFrame

\* What one call of cleanupS3Objects does and returns: for a file one
\* DeleteObject, whose error it returns; for a directory one ListObjectsV2,
\* whose error it returns, and one DeleteObject per key listed, whose errors
\* it logs.
CleanupOutcomes(prefix, dir) ==
  IF ~dir
    THEN { [calls |-> <<DeleteEvent(prefix, TRUE)>>, err |-> Nil] }
         \cup { [calls |-> <<DeleteEvent(prefix, FALSE)>>,
                 err |-> Wrap("failed to delete object from S3: ", e)] : e \in S3Errors }
    ELSE LET keys == ObjectsUnder(prefix, TRUE)
         IN { [calls |-> <<ListEvent(prefix, FALSE)>>,
               err |-> Wrap("failed to list S3 objects for cleanup: ", e)] : e \in S3Errors }
            \cup { [calls |-> <<ListEvent(prefix, TRUE)>>
                                \o [j \in 1..Len(keys) |-> DeleteEvent(keys[j], j \notin bad)],
                    err |-> Nil] : bad \in SUBSET (1..Len(keys)) }

\* A slip: a cleanup that fails fails the transfer.
FromRemoteCleanup_returnsError ==
  /\ t_pc = "cleanup"
  /\ \E c \in CleanupOutcomes(uploadPath, isDirectory) :
       /\ t_log' = t_log \o c.calls
       /\ TransferReturns(c.err)
  /\ t_cleanups' = t_cleanups + 1
  /\ UNCHANGED <<IsDirectory, isDirectory, uploadPath>>
  /\ TransferFrame

\* if err := cleanupS3Objects(...); err != nil { log.Warn(...) }; return nil
FromRemoteCleanup ==
  /\ t_pc = "cleanup"
  /\ \E c \in CleanupOutcomes(uploadPath, isDirectory) :
       /\ t_log' = t_log \o c.calls
       /\ TransferReturns(Nil)
  /\ t_cleanups' = t_cleanups + 1
  /\ UNCHANGED <<IsDirectory, isDirectory, uploadPath>>
  /\ TransferFrame

InitFromRemote ==
  /\ ClassifierOff
  /\ SSMOff
  /\ CheckCLIOff
  /\ ExtrasOff
  /\ r_pc = "off"
  /\ maxRetries \in 0..MaxRetriesBound
  /\ baseDelay = Int64(1)
  /\ attempt = 0 /\ lastErr = Nil /\ r_err = Nil /\ r_ret = Nil /\ r_log = <<>>
  /\ t_pc = "precheck" /\ t_at = ""
  /\ IsDirectory \in BOOLEAN
  /\ isDirectory = FALSE
  /\ \E now \in UnixTimes : uploadPath = GeneratedKey(now)
  /\ t_log = <<>> /\ t_cleanups = 0 /\ t_ret = Nil

NextFromRemote ==
  \/ RetryLoopHead \/ RetryAfterCall
  \/ FromRemoteCheck \/ FromRemoteProbe
  \/ FromRemotePush \/ FromRemotePushed
  \/ downloadFromS3 \/ FromRemoteDownloaded \/ FromRemoteCleanup

SpecFromRemote == InitFromRemote /\ [][NextFromRemote]_vars

(***************************************************************************)
(* Execute: the transfer in the direction transferConfig.Direction names   *)
(***************************************************************************)

InitTransfer == InitToRemote \/ InitFromRemote

NextTransfer == NextToRemote \/ NextFromRemote

SpecTransfer == InitTransfer /\ [][NextTransfer]_vars

(***************************************************************************)
(* A transfer, or one run of runSSMCommand, with every call answered       *)
(***************************************************************************)

\* A transfer with each run of runSSMCommand taken whole, or one run of
\* runSSMCommand taken call by call.
InitAnswered == InitTransfer \/ InitSSM

NextAnswered == NextTransfer \/ NextSSM

\* The program has one thread, its sleeps end, and each call on a client is
\* answered (with a result or an error): a step that can be taken is taken.
SpecAnswered == InitAnswered /\ [][NextAnswered]_vars /\ WF_vars(NextAnswered)

(***************************************************************************)
(* The keys of FromRemote invocations against one bucket                   *)
(***************************************************************************)

\* The last instant of the clock.
MaxClock == 7

\* How many invocations are started.
MaxInvocations == 2

\* time.Now().Unix(): whole seconds, of a clock that counts half seconds.
Unix(clock) == 1762275600 + (clock \div 2)

\* Time passes.
ClockTicks ==
  /\ g_clock < MaxClock
  /\ g_clock' = g_clock + 1
  /\ UNCHANGED g_keys
  /\ UNCHANGED <<cvars, rvars, svars, kvars, tvars, vvars, lvars, ovars, uvars>>

\* An invocation of ExecuteFromRemoteWithClients starts at the present
\* instant: uploadPath := fmt.Sprintf("bcp-download-%d", time.Now().Unix())
GenerateKey ==
  /\ Len(g_keys) < MaxInvocations
  /\ g_keys' = Append(g_keys, [at |-> g_clock, key |-> GeneratedKey(Unix(g_clock))])
  /\ UNCHANGED g_clock
  /\ UNCHANGED <<cvars, rvars, svars, kvars, tvars, vvars, lvars, ovars, uvars>>

InitKeys ==
  /\ ClassifierOff
  /\ RetryOff
  /\ SSMOff
  /\ CheckCLIOff
  /\ TransferOff
  /\ FunctionOff
  /\ CommandLineOff /\ ObjectsOff /\ EarlierOff
  /\ g_clock = 0 /\ g_keys = <<>>

NextKeys == ClockTicks \/ GenerateKey

SpecKeys == InitKeys /\ [][NextKeys]_vars

(***************************************************************************)
(* package validation                                                      *)
(***************************************************************************)

\* A slip: any number of digits is taken.
MatchesInstanceID_anyLength(s) ==
  /\ SubSeq(s, 1, 2) = "i-"
  /\ AllIn(SubSeq(s, 3, Len(s)), HexDigits)

\* regexp `^i-[0-9a-f]{8,17}$`
MatchesInstanceID(s) ==
  /\ Len(s) >= 10 /\ Len(s) <= 19
  /\ SubSeq(s, 1, 2) = "i-"
  /\ AllIn(SubSeq(s, 3, Len(s)), HexDigits)

\* filepath.IsAbs(path), on Unix
IsAbs(path) == Len(path) >= 1 /\ SubSeq(path, 1, 1) = "/"

\* What ValidateSSMPath returns.
SSMPathResult(id, dest, err) == [instanceID |-> id, destination |-> dest, err |-> err]

ValidateSSMPath(ssmPath) ==
  IF ssmPath = ""
    THEN SSMPathResult("", "", NewError("SSM path cannot be empty"))
  ELSE LET parts == Split(ssmPath, ":") IN
  IF Len(parts) # 2
    THEN SSMPathResult("", "", NewError(
           "invalid SSM path format, expected 'instance-id:destination', got: " \o ssmPath))
  ELSE LET instanceID == TrimSpace(parts[1])
           destination == TrimSpace(parts[2]) IN
  IF instanceID = ""
    THEN SSMPathResult("", "", NewError("SSM instance ID cannot be empty"))
  ELSE IF destination = ""
    THEN SSMPathResult("", "", NewError("destination path cannot be empty"))
  ELSE IF ~MatchesInstanceID(instanceID)
    THEN SSMPathResult("", "", NewError(
           "invalid SSM instance ID format: " \o instanceID \o " (expected format: i-xxxxxxxxx)"))
  ELSE IF ~IsAbs(destination)
    THEN SSMPathResult("", "", NewError(
           "destination must be an absolute path, got: " \o destination))
  ELSE SSMPathResult(instanceID, destination, Nil)

\* regexp `^[a-z0-9][a-z0-9\.\-]*[a-z0-9]$`
MatchesBucketPattern(s) ==
  /\ Len(s) >= 2
  /\ SubSeq(s, 1, 1) \in LowerLetters \cup DecimalDigits
  /\ SubSeq(s, Len(s), Len(s)) \in LowerLetters \cup DecimalDigits
  /\ AllIn(SubSeq(s, 2, Len(s) - 1), LowerLetters \cup DecimalDigits \cup {".", "-"})

\* A slip: nothing is taken for an address.
MatchesIPPattern_never(s) == FALSE

\* regexp `^\d{1,3}\.\d{1,3}\.\d{1,3}\.\d{1,3}$`
MatchesIPPattern(s) ==
  LET groups == Split(s, ".")
  IN  /\ Len(groups) = 4
      /\ \A j \in 1..4 : /\ Len(groups[j]) >= 1 /\ Len(groups[j]) <= 3
                         /\ AllIn(groups[j], DecimalDigits)

ValidateBucketName(bucket) ==
  IF bucket = ""
    THEN NewError("bucket name cannot be empty")
  ELSE IF Len(bucket) < 3 \/ Len(bucket) > 63
    THEN NewError("bucket name must be between 3 and 63 characters, got: "
                  \o IntToString(Len(bucket)))
  ELSE IF ~MatchesBucketPattern(bucket)
    THEN NewError("invalid bucket name format: " \o bucket
                  \o " (must contain only lowercase letters, numbers, dots, and hyphens)")
  ELSE IF MatchesIPPattern(bucket)
    THEN NewError("bucket name cannot be formatted as an IP address: " \o bucket)
  ELSE IF Contains(bucket, "..")
    THEN NewError("bucket name cannot contain consecutive periods: " \o bucket)
  ELSE IF Contains(bucket, ".-") \/ Contains(bucket, "-.")
    THEN NewError("bucket name cannot have adjacent periods and hyphens: " \o bucket)
  ELSE Nil

\* What os.Stat can answer for a path: a directory, a regular file, another
\* kind of file, no such file, or a failure to look.
StatAnswers == {"dir", "file", "other", "absent", "failed"}

\* What ValidateSourcePath returns; stat is the answer of os.Stat for
\* filepath.Clean(path).
SourcePathResult(dir, err) == [isDirectory |-> dir, err |-> err]

ValidateSourcePath(path, stat) ==
  IF path = ""
    THEN SourcePathResult(FALSE, NewError("source path cannot be empty"))
  ELSE IF stat = "absent"
    THEN SourcePathResult(FALSE, NewError("source path does not exist: " \o Clean(path)))
  ELSE IF stat = "failed"
    THEN SourcePathResult(FALSE, Wrap("failed to access source path: ",
                                      NewError("permission denied")))
  ELSE IF stat = "other"
    THEN SourcePathResult(FALSE, NewError(
           "source path is not a regular file or directory: " \o Clean(path)))
  ELSE SourcePathResult(stat = "dir", Nil)

(***************************************************************************)
(* package config                                                          *)
(***************************************************************************)

\* var MaxRetries = 3
DefaultMaxRetries == 3

\* var RetryDelay = 2
DefaultRetryDelay == 2

\* The largest value configured for a key
MaxConfigured == 4

\* What a key of the configuration may hold: nothing, or one integer.
Unset == <<>>
ConfiguredValues == {Unset} \cup { <<n>> : n \in -1..MaxConfigured }

\* viper.GetInt(key): the value set, else the default if setDefaults has
\* registered one, else 0.
GetInt(set, defaults, default) ==
  IF set # Unset THEN set[1]
  ELSE IF defaults THEN default
  ELSE 0

\* A slip: a configured 0 is kept.
LoadedConstants_keepsZero(c) ==
  [MaxRetries |-> GetInt(c.max_retries, c.defaults, 3),
   RetryDelay |-> GetInt(c.retry_delay, c.defaults, 2)]

\* The package variables after LoadConstants(), for the configuration c.
LoadedConstants(c) ==
  LET max_retries == GetInt(c.max_retries, c.defaults, 3)
      retry_delay == GetInt(c.retry_delay, c.defaults, 2)
  IN  [MaxRetries |-> IF max_retries = 0 THEN 3 ELSE max_retries,
       RetryDelay |-> IF retry_delay = 0 THEN 2 ELSE retry_delay]

\* What the steps of a function applied to its input leave alone.
FunctionFrame == UNCHANGED <<cvars, rvars, svars, kvars, tvars, gvars, lvars, ovars, uvars>>

LoadConstants ==
  /\ v_pc = "ready"
  /\ v_out' = LoadedConstants(v_in)
  /\ v_pc' = "done"
  /\ UNCHANGED v_in
  /\ FunctionFrame

\* The other components are off.
OnlyFunction ==
  /\ ClassifierOff /\ RetryOff /\ SSMOff /\ CheckCLIOff /\ TransferOff
  /\ KeysOff /\ CommandLineOff /\ ObjectsOff /\ EarlierOff

InitConfig ==
  /\ OnlyFunction
  /\ v_pc = "ready"
  /\ v_in \in [defaults : BOOLEAN, max_retries : ConfiguredValues,
               retry_delay : ConfiguredValues]
  /\ v_out = [MaxRetries |-> DefaultMaxRetries, RetryDelay |-> DefaultRetryDelay]

NextConfig == LoadConstants

SpecConfig == InitConfig /\ [][NextConfig]_vars

(***************************************************************************)
(* retryOperation with the constants LoadConstants has loaded: RunE copies *)
(* config.MaxRetries and config.RetryDelay into the TransferConfig, and    *)
(* the transfer hands them to retryOperation                               *)
(***************************************************************************)

\* retryOperation(operation, transferConfig.MaxRetries, transferConfig.RetryDelay)
RetryWithLoaded ==
  /\ v_pc = "done" /\ r_pc = "off"
  /\ r_pc' = "top"
  /\ maxRetries' = v_out.MaxRetries
  /\ baseDelay' = Int64(v_out.RetryDelay)
  /\ UNCHANGED <<attempt, lastErr, r_err, r_ret, r_log>>
  /\ RetryFrame

\* The configuration sets transfer.max_retries, or leaves it out.
InitLoaded ==
  /\ OnlyFunction
  /\ v_pc = "ready"
  /\ v_in \in [defaults : BOOLEAN, max_retries : ConfiguredValues, retry_delay : {Unset}]
  /\ v_out = [MaxRetries |-> DefaultMaxRetries, RetryDelay |-> DefaultRetryDelay]

NextLoaded == LoadConstants \/ RetryWithLoaded \/ NextRetry

SpecLoaded == InitLoaded /\ [][NextLoaded]_vars

(***************************************************************************)
(* ValidateSSMPath and ValidateBucketName, each applied to one input       *)
(***************************************************************************)

\* What is written before the colon of the argument.
InstanceIDInputs ==
  {"", " ", "i-12345678", "i-1234567", "i-abcdef12", "i-1234567890abcdef0",
   "i-1234567890abcdef01", "i-1234567g", "i-1234567A", "I-12345678",
   "x-12345678", "12345678", " i-12345678 ", "i-12345678\n", "i-1234 5678"}

\* What is written after it.
DestinationInputs ==
  {"", " ", "/", "/tmp", "tmp", " /tmp ", "\t/tmp/dest", "./x", "~/x", "/tmp/my dir"}

SSMPathInputs ==
  InstanceIDInputs
  \cup { i \o ":" \o d : i \in InstanceIDInputs, d \in DestinationInputs }
  \cup { i \o ":" \o d \o ":" \o e :
           i \in {"i-12345678", ""}, d \in DestinationInputs, e \in {"", "/x"} }

ApplyValidateSSMPath ==
  /\ v_pc = "ready"
  /\ v_out' = ValidateSSMPath(v_in)
  /\ v_pc' = "done"
  /\ UNCHANGED v_in
  /\ FunctionFrame

InitSSMPath ==
  /\ OnlyFunction
  /\ v_pc = "ready"
  /\ v_in \in SSMPathInputs
  /\ v_out = SSMPathResult("", "", Nil)

NextSSMPath == ApplyValidateSSMPath

SpecSSMPath == InitSSMPath /\ [][NextSSMPath]_vars

\* s written n times
RECURSIVE Repeat(_, _)
Repeat(s, n) == IF n = 0 THEN "" ELSE s \o Repeat(s, n - 1)

\* The characters short bucket names are made of.
BucketAlphabet == {"a", "1", ".", "-", "B", "_"}

BucketInputs ==
  { a \o b \o c : a, b, c \in BucketAlphabet }
  \cup { a \o b \o c \o d : a, b, c, d \in BucketAlphabet }
  \cup { "", "a", "ab", "a.", Repeat("a", 63), Repeat("a", 64),
         Repeat("a", 62) \o "-", "my-bucket", "my.bucket", "my-test.bucket1",
         "Invalid-Bucket-Name", "my bucket", "192.168.1.1", "1.2.3.4",
         "256.256.256.256", "1.2.3", "1.2.3.4.5", "1234.1.1.1", "1.2.3.a",
         "10.0.0.1a", "a1.b2.c3.d4", "my..bucket", "my.-bucket", "my-.bucket" }

ApplyValidateBucketName ==
  /\ v_pc = "ready"
  /\ v_out' = ValidateBucketName(v_in)
  /\ v_pc' = "done"
  /\ UNCHANGED v_in
  /\ FunctionFrame

InitBucketName ==
  /\ OnlyFunction
  /\ v_pc = "ready"
  /\ v_in \in BucketInputs
  /\ v_out = Nil

NextBucketName == ApplyValidateBucketName

SpecBucketName == InitBucketName /\ [][NextBucketName]_vars

(***************************************************************************)
(* The command line: RootCmd.RunE, and the transfer it starts              *)
(***************************************************************************)

\* The entries of the file system whose kind is the same in every run.
FixedEntries ==
  [p \in {"report.txt", "sub", "sub/report.txt", "/srv", "/srv/data", "/dev/null"} |->
     CASE p = "report.txt" -> "file"
       [] p = "sub" -> "dir"
       [] p = "sub/report.txt" -> "file"
       [] p = "/srv" -> "dir"
       [] p = "/srv/data" -> "dir"
       [] p = "/dev/null" -> "other"]

\* The file systems a run may meet: data in the working directory and /data
\* are each a directory or a regular file, and /data may be absent.
FileSystems ==
  { [p \in DOMAIN FixedEntries \cup {"data", "/data"} |->
       IF p = "data" THEN here
       ELSE IF p = "/data" THEN there
       ELSE FixedEntries[p]] :
    here \in {"dir", "file"}, there \in {"dir", "file", "absent"} }

\* os.Stat(path) in the file system fs: the empty path names nothing, a path
\* that ends with a slash names a directory or fails, and a path names what
\* its cleaned form names.
Stat(fs, path) ==
  IF path = "" THEN "absent"
  ELSE LET entry == IF Clean(path) \in DOMAIN fs THEN fs[Clean(path)] ELSE "absent" IN
    IF entry \in {"file", "other"} /\ SubSeq(path, Len(path), Len(path)) = "/"
      THEN "failed"
      ELSE entry

\* args[0]
SourceInputs ==
  {"", "missing", "/dev/null", "./data", "data", "data/", ".//data",
   "./report.txt", "sub/report.txt", "./sub/report.txt", "/srv/data"}

\* args[1]
SSMPathArguments ==
  {"i-1234567890abcdef0:/home/ec2-user/files", "invalid-format", "invalid:/tmp"}

\* The --bucket flag and the bucket of the configuration
BucketFlags == {"", "my-bucket", "Invalid-Bucket-Name"}
ConfiguredBuckets == {"", "cfg-bucket"}

\* One call of RunE or of the transfer: what was called, on what, and
\* whether it ended without error.
CallOf(op, arg, ok) == [op |-> op, arg |-> arg, ok |-> ok]

\* RunE returns err.
RunEReturns(err) == cli_pc' = "done" /\ cli_err' = err

\* What the steps of RunE leave alone.
CommandLineFrame == UNCHANGED <<cvars, rvars, svars, kvars, tvars, gvars, vvars, ovars, uvars>>

\* isDirectory, err := validation.ValidateSourcePath(sourceDirectory)
\* if err != nil { return fmt.Errorf("invalid source path: %w", err) }
RunEValidateSource ==
  /\ cli_pc = "source"
  /\ LET sourceDirectory == cli_args.sourceDirectory
         v == ValidateSourcePath(sourceDirectory, Stat(cli_fs, Clean(sourceDirectory)))
     IN /\ cli_calls' = Append(cli_calls,
                               CallOf("ValidateSourcePath", sourceDirectory, v.err.isNil))
        /\ IF ~v.err.isNil
             THEN RunEReturns(Wrap("invalid source path: ", v.err)) /\ UNCHANGED cli_cfg
             ELSE /\ cli_cfg' = [cli_cfg EXCEPT !.Source = sourceDirectory,
                                                !.IsDirectory = v.isDirectory]
                  /\ cli_pc' = "ssm" /\ UNCHANGED cli_err
  /\ UNCHANGED <<cli_args, cli_fs>>
  /\ CommandLineFrame

\* ssmInstanceID, destinationDirectory, err := validation.ValidateSSMPath(ssmPath)
\* if err != nil { return fmt.Errorf("invalid SSM path: %w", err) }
RunEValidateSSMPath ==
  /\ cli_pc = "ssm"
  /\ LET v == ValidateSSMPath(cli_args.ssmPath)
     IN /\ cli_calls' = Append(cli_calls,
                               CallOf("ValidateSSMPath", cli_args.ssmPath, v.err.isNil))
        /\ IF ~v.err.isNil
             THEN RunEReturns(Wrap("invalid SSM path: ", v.err)) /\ UNCHANGED cli_cfg
             ELSE /\ cli_cfg' = [cli_cfg EXCEPT !.SSMInstanceID = v.instanceID,
                                                !.Destination = v.destination]
                  /\ cli_pc' = "bucket" /\ UNCHANGED cli_err
  /\ UNCHANGED <<cli_args, cli_fs>>
  /\ CommandLineFrame

\* fmt.Errorf("bucket name is required (use --bucket flag or set in config)")
BucketRequiredError ==
  NewError("bucket name is required (use --bucket flag or set in config)")

\* bucketName := bucket; if bucketName == "" { bucketName = config.GetBucket() }
\* if bucketName == "" { return the error above }
RunEBucket ==
  /\ cli_pc = "bucket"
  /\ LET bucketName == IF cli_args.bucket = "" THEN cli_args.configBucket
                                               ELSE cli_args.bucket
     IN IF bucketName = ""
          THEN RunEReturns(BucketRequiredError) /\ UNCHANGED cli_cfg
          ELSE /\ cli_cfg' = [cli_cfg EXCEPT !.BucketName = bucketName]
               /\ cli_pc' = "validate" /\ UNCHANGED cli_err
  /\ UNCHANGED <<cli_args, cli_fs, cli_calls>>
  /\ CommandLineFrame

\* A slip: a bucket name that fails validation is used all the same.
RunEValidateBucket_goesOn ==
  /\ cli_pc = "validate"
  /\ cli_calls' = Append(cli_calls, CallOf("ValidateBucketName", cli_cfg.BucketName,
                                           ValidateBucketName(cli_cfg.BucketName).isNil))
  /\ cli_pc' = "execute"
  /\ UNCHANGED <<cli_args, cli_fs, cli_cfg, cli_err>>
  /\ CommandLineFrame

\* if err := validation.ValidateBucketName(bucketName); err != nil {
\*   return fmt.Errorf("invalid bucket name: %w", err) }
RunEValidateBucket ==
  /\ cli_pc = "validate"
  /\ LET err == ValidateBucketName(cli_cfg.BucketName)
     IN /\ cli_calls' = Append(cli_calls,
                               CallOf("ValidateBucketName", cli_cfg.BucketName, err.isNil))
        /\ IF ~err.isNil
             THEN RunEReturns(Wrap("invalid bucket name: ", err))
             ELSE cli_pc' = "execute" /\ UNCHANGED cli_err
  /\ UNCHANGED <<cli_args, cli_fs, cli_cfg>>
  /\ CommandLineFrame

\* transferConfig := model.TransferConfig{...}; transfer.Execute(transferConfig)
RunEExecute ==
  /\ cli_pc = "execute"
  /\ cli_cfg' = [cli_cfg EXCEPT !.MaxRetries = DefaultMaxRetries,
                                !.RetryDelay = DefaultRetryDelay]
  /\ cli_calls' = Append(cli_calls, CallOf("Execute", cli_cfg.Source, TRUE))
  /\ cli_pc' = "upload"
  /\ UNCHANGED <<cli_args, cli_fs, cli_err>>
  /\ CommandLineFrame

\* if err := transfer.Execute(transferConfig); err != nil {
\*   return fmt.Errorf("transfer failed: %w", err) }
ExecuteReturns(err) ==
  RunEReturns(IF err.isNil THEN Nil ELSE Wrap("transfer failed: ", err))

\* uploadPath := strings.TrimPrefix(transferConfig.Source, "./")
UploadPathOf(source) == TrimPrefix(source, "./")

\* s3URL := fmt.Sprintf("s3://%s/%s", transferConfig.BucketName, uploadPath)
S3URLIn(bucket, key) == "s3://" \o bucket \o "/" \o key

\* The upload phase of the transfer, by the call of uploadToS3 that settles
\* it: os.Stat(uploadPath) fails, or the files are put, all of them or up to a
\* PutObject that is refused.
TransferUpload ==
  /\ cli_pc = "upload"
  /\ LET localPath == UploadPathOf(cli_cfg.Source)
         stat == Stat(cli_fs, localPath)
         keys == UploadKeys(localPath, stat = "dir")
         files == UploadFiles(localPath, stat = "dir")
     IN IF stat \in {"absent", "failed"}
          THEN /\ ExecuteReturns(Wrap("failed to upload to S3: ", StatError(localPath)))
               /\ UNCHANGED cli_calls
          ELSE \/ /\ cli_calls' = cli_calls \o
                       [j \in 1..Len(keys) |-> PutEvent(keys[j], TRUE)]
                  /\ cli_pc' = "check" /\ UNCHANGED cli_err
               \/ /\ cli_calls' = Append(cli_calls, PutEvent(keys[1], FALSE))
                  /\ ExecuteReturns(Wrap("failed to upload to S3: ",
                       PutFailedError(files[1], APIError("AccessDenied", "Access Denied"))))
  /\ UNCHANGED <<cli_args, cli_fs, cli_cfg>>
  /\ CommandLineFrame

\* The check of the AWS CLI on the instance, with its two early returns.
TransferCheck ==
  /\ cli_pc = "check"
  /\ \E out \in {"/usr/bin/aws", ""} :
       LET gate == CheckGate(AWSCLIVerdict(out, Nil))
       IN /\ cli_calls' = Append(cli_calls, SendEvent("which aws", TRUE))
          /\ IF ~gate.isNil
               THEN ExecuteReturns(gate)
               ELSE cli_pc' = "fetch" /\ UNCHANGED cli_err
  /\ UNCHANGED <<cli_args, cli_fs, cli_cfg>>
  /\ CommandLineFrame

\* The fetch phase, by the run of downloadCommand that settles it.
TransferFetch ==
  /\ cli_pc = "fetch"
  /\ LET downloadCommand ==
           CopyCommand(S3URLIn(cli_cfg.BucketName, UploadPathOf(cli_cfg.Source)),
                       cli_cfg.Destination, cli_cfg.IsDirectory)
     IN \/ /\ cli_calls' = Append(cli_calls, SendEvent(downloadCommand, TRUE))
           /\ cli_pc' = "verify" /\ UNCHANGED cli_err
        \/ /\ cli_calls' = Append(cli_calls, SendEvent(downloadCommand, FALSE))
           /\ ExecuteReturns(Wrap("failed to download from S3 to remote instance: ",
                                  CommandFailedError("Failed", "")))
  /\ UNCHANGED <<cli_args, cli_fs, cli_cfg>>
  /\ CommandLineFrame

\* The listing of the destination; the transfer returns nil.
TransferVerify ==
  /\ cli_pc = "verify"
  /\ \E ok \in BOOLEAN :
       cli_calls' = Append(cli_calls, SendEvent("ls -la " \o cli_cfg.Destination, ok))
  /\ ExecuteReturns(Nil)
  /\ UNCHANGED <<cli_args, cli_fs, cli_cfg>>
  /\ CommandLineFrame

\* The zero value of model.TransferConfig
ZeroTransferConfig ==
  [Source |-> "", SSMInstanceID |-> "", Destination |-> "", BucketName |-> "",
   MaxRetries |-> 0, RetryDelay |-> 0, IsDirectory |-> FALSE]

InitCommandLine ==
  /\ ClassifierOff /\ RetryOff /\ SSMOff /\ CheckCLIOff /\ TransferOff
  /\ KeysOff /\ FunctionOff /\ ObjectsOff /\ EarlierOff
  /\ cli_pc = "source"
  /\ cli_args \in [sourceDirectory : SourceInputs, ssmPath : SSMPathArguments,
                   bucket : BucketFlags, configBucket : ConfiguredBuckets]
  /\ cli_fs \in FileSystems
  /\ cli_calls = <<>>
  /\ cli_cfg = ZeroTransferConfig
  /\ cli_err = Nil

NextCommandLine ==
  \/ RunEValidateSource \/ RunEValidateSSMPath \/ RunEBucket
  \/ RunEValidateBucket \/ RunEExecute
  \/ TransferUpload \/ TransferCheck \/ TransferFetch \/ TransferVerify

SpecCommandLine == InitCommandLine /\ [][NextCommandLine]_vars

(***************************************************************************)
(* downloadFromS3 and cleanupS3Objects, call by call                       *)
(***************************************************************************)

\* The key (or key prefix) the remote instance copied to.
ObjectPrefix == GeneratedKey(1762275600)

\* The pages a listing under ObjectPrefix answers with: nothing; the files
\* of a directory on two pages, after a placeholder for the prefix; the
\* prefix itself, an empty page and a key that only begins like the prefix;
\* a placeholder for a subdirectory before the file in it.
Listings ==
  { << <<>> >>,
    << <<ObjectPrefix \o "/", ObjectPrefix \o "/a.txt">>, <<ObjectPrefix \o "/sub/b.txt">> >>,
    << <<ObjectPrefix, ObjectPrefix \o "/a.txt">>, <<>>, <<ObjectPrefix \o ".bak">> >>,
    << <<ObjectPrefix \o "/sub/", ObjectPrefix \o "/sub/b.txt">> >> }

\* The local file systems a download starts in: the destination absent,
\* a directory with an older a.txt in it, or an older file.
LocalFileSystems ==
  { [dirs |-> {"/tmp"}, files |-> <<>>],
    [dirs |-> {"/tmp", Destination}, files |-> (Join(Destination, "a.txt") :> "old")],
    [dirs |-> {"/tmp"}, files |-> (Destination :> "old")] }

\* path and the directories above it, below the root or the working directory
RECURSIVE Ancestors(_)
Ancestors(path) ==
  IF path \in {".", "/"} THEN {} ELSE {path} \cup Ancestors(Dir(path))

\* os.MkdirAll(path, 0755): what it leaves and returns. It fails where a
\* file stands in the way, and may fail where a directory is to be made.
MkdirAll(fs, path) ==
  IF \E a \in Ancestors(path) : a \in DOMAIN fs.files
    THEN { [fs |-> fs, err |-> NewError("mkdir " \o path \o ": not a directory")] }
  ELSE IF path \in fs.dirs
    THEN { [fs |-> fs, err |-> Nil] }
  ELSE { [fs |-> [fs EXCEPT !.dirs = @ \cup Ancestors(path)], err |-> Nil],
         [fs |-> fs, err |-> NewError("mkdir " \o path \o ": permission denied")] }

\* os.Create(path): what it leaves and returns. It creates the file or
\* truncates it; it fails on a directory, below what is no directory, and
\* may fail for want of permission.
Create(fs, path) ==
  IF path \in fs.dirs
    THEN { [fs |-> fs, err |-> NewError("open " \o path \o ": is a directory")] }
  ELSE IF Dir(path) \notin fs.dirs \cup {".", "/"}
    THEN { [fs |-> fs, err |-> NewError("open " \o path \o ": no such file or directory")] }
  ELSE { [fs |-> [fs EXCEPT !.files = (path :> "") @@ @], err |-> Nil],
         [fs |-> fs, err |-> NewError("open " \o path \o ": permission denied")] }

\* file.ReadFrom(result.Body): the body of the object (here: its key) is
\* written, or the write fails and leaves the file short (here: empty).
ReadFrom(fs, path, key) ==
  { [fs |-> [fs EXCEPT !.files = (path :> key) @@ @], err |-> Nil],
    [fs |-> fs, err |-> NewError("write " \o path \o ": no space left on device")] }

\* The page being gone through, and the key at hand.
CurrentPage == o_pages[o_page]
CurrentKey == IF o_dir THEN CurrentPage[o_obj + 1] ELSE ObjectPrefix

\* relPath := strings.TrimPrefix(key, prefix); relPath = strings.TrimPrefix(relPath, "/")
\* localFilePath := filepath.Join(localPath, relPath)
LocalFilePath(localPath, prefix, key) ==
  Join(localPath, TrimPrefix(TrimPrefix(key, prefix), "/"))

\* The local path downloadFile is given.
CurrentPath ==
  IF o_dir THEN LocalFilePath(Destination, ObjectPrefix, CurrentKey) ELSE Destination

\* if key == prefix || key == prefix+"/" { continue }
IsBarePrefix(key, prefix) == key = prefix \/ key = prefix \o "/"

\* What the steps of the two functions leave alone.
ObjectsFrame == UNCHANGED <<cvars, rvars, svars, kvars, tvars, gvars, vvars, lvars, uvars>>

\* The function returns err.
ObjectsReturn(err) == o_pc' = "done" /\ o_ret' = err

\* downloadFromS3: for a directory, downloadDirectory and its
\* os.MkdirAll(localPath, 0755); for a file, downloadFile.
DownloadStart ==
  /\ o_pc = "start" /\ o_fn = "downloadFromS3"
  /\ IF o_dir
       THEN \E m \in MkdirAll(o_fs, Destination) :
              /\ o_fs' = m.fs
              /\ IF ~m.err.isNil
                   THEN ObjectsReturn(Wrap("failed to create local directory "
                                             \o Destination \o ": ", m.err))
                   ELSE o_pc' = "page" /\ UNCHANGED o_ret
       ELSE o_pc' = "get" /\ UNCHANGED <<o_fs, o_ret>>
  /\ UNCHANGED <<o_fn, o_dir, o_pages, o_page, o_obj, o_log>>
  /\ ObjectsFrame

\* cleanupS3Objects: the listing for a directory, the one delete for a file.
CleanupStart ==
  /\ o_pc = "start" /\ o_fn = "cleanupS3Objects"
  /\ o_pc' = IF o_dir THEN "page" ELSE "delete"
  /\ UNCHANGED <<o_fn, o_dir, o_pages, o_page, o_obj, o_log, o_fs, o_ret>>
  /\ ObjectsFrame

\* fmt.Errorf("failed to list S3 objects: %w", err) in downloadDirectory,
\* fmt.Errorf("failed to list S3 objects for cleanup: %w", err) in cleanupS3Objects
ListFailedError(fn, e) ==
  IF fn = "downloadFromS3"
    THEN Wrap("failed to list S3 objects: ", e)
    ELSE Wrap("failed to list S3 objects for cleanup: ", e)

\* for paginator.HasMorePages() { page, err := paginator.NextPage(ctx) ... }; return nil
NextPage ==
  /\ o_pc = "page"
  /\ IF o_page < Len(o_pages)
       THEN \/ /\ o_log' = Append(o_log, ListEvent(ObjectPrefix, TRUE))
               /\ o_page' = o_page + 1 /\ o_obj' = 0
               /\ o_pc' = "object" /\ UNCHANGED o_ret
            \/ \E e \in S3Errors :
               /\ o_log' = Append(o_log, ListEvent(ObjectPrefix, FALSE))
               /\ ObjectsReturn(ListFailedError(o_fn, e))
               /\ UNCHANGED <<o_page, o_obj>>
       ELSE ObjectsReturn(Nil) /\ UNCHANGED <<o_log, o_page, o_obj>>
  /\ UNCHANGED <<o_fn, o_dir, o_pages, o_fs>>
  /\ ObjectsFrame

\* A slip: the placeholder of the prefix is fetched like any other key.
DownloadObject_fetchesPlaceholder ==
  /\ o_pc = "object" /\ o_fn = "downloadFromS3"
  /\ IF o_obj = Len(CurrentPage)
       THEN o_pc' = "page" /\ UNCHANGED <<o_obj, o_fs, o_ret>>
       ELSE \E m \in MkdirAll(o_fs, Dir(CurrentPath)) :
              /\ o_fs' = m.fs
              /\ UNCHANGED o_obj
              /\ IF ~m.err.isNil
                   THEN ObjectsReturn(Wrap("failed to create directory for "
                                             \o CurrentPath \o ": ", m.err))
                   ELSE o_pc' = "get" /\ UNCHANGED o_ret
  /\ UNCHANGED <<o_fn, o_dir, o_pages, o_page, o_log>>
  /\ ObjectsFrame

\* for _, obj := range page.Contents: the skip of the bare prefix, and
\* os.MkdirAll(filepath.Dir(localFilePath), 0755) before downloadFile.
DownloadObject ==
  /\ o_pc = "object" /\ o_fn = "downloadFromS3"
  /\ IF o_obj = Len(CurrentPage)
       THEN o_pc' = "page" /\ UNCHANGED <<o_obj, o_fs, o_ret>>
     ELSE IF IsBarePrefix(CurrentKey, ObjectPrefix)
       THEN o_obj' = o_obj + 1 /\ UNCHANGED <<o_pc, o_fs, o_ret>>
     ELSE \E m \in MkdirAll(o_fs, Dir(CurrentPath)) :
            /\ o_fs' = m.fs
            /\ UNCHANGED o_obj
            /\ IF ~m.err.isNil
                 THEN ObjectsReturn(Wrap("failed to create directory for "
                                           \o CurrentPath \o ": ", m.err))
                 ELSE o_pc' = "get" /\ UNCHANGED o_ret
  /\ UNCHANGED <<o_fn, o_dir, o_pages, o_page, o_log>>
  /\ ObjectsFrame

\* A slip: the local file is created before the object is asked for.
downloadFileGet_createsFirst ==
  /\ o_pc = "get"
  /\ \/ /\ o_log' = Append(o_log, GetEvent(CurrentKey, TRUE))
        /\ o_pc' = "create" /\ UNCHANGED <<o_ret, o_fs>>
     \/ \E e \in S3Errors : \E c \in Create(o_fs, CurrentPath) :
        /\ o_log' = Append(o_log, GetEvent(CurrentKey, FALSE))
        /\ o_fs' = c.fs
        /\ ObjectsReturn(Wrap("failed to get object from S3: ", e))
  /\ UNCHANGED <<o_fn, o_dir, o_pages, o_page, o_obj>>
  /\ ObjectsFrame

\* downloadFile: result, err := client.GetObject(...);
\* if err != nil { return fmt.Errorf("failed to get object from S3: %w", err) }
downloadFileGet ==
  /\ o_pc = "get"
  /\ \/ /\ o_log' = Append(o_log, GetEvent(CurrentKey, TRUE))
        /\ o_pc' = "create" /\ UNCHANGED o_ret
     \/ \E e \in S3Errors :
        /\ o_log' = Append(o_log, GetEvent(CurrentKey, FALSE))
        /\ ObjectsReturn(Wrap("failed to get object from S3: ", e))
  /\ UNCHANGED <<o_fn, o_dir, o_pages, o_page, o_obj, o_fs>>
  /\ ObjectsFrame

\* downloadFile: file, err := os.Create(localPath);
\* if err != nil { return fmt.Errorf("failed to create local file %s: %w", localPath, err) }
downloadFileCreate ==
  /\ o_pc = "create"
  /\ \E c \in Create(o_fs, CurrentPath) :
       /\ o_fs' = c.fs
       /\ IF ~c.err.isNil
            THEN ObjectsReturn(Wrap("failed to create local file " \o CurrentPath \o ": ", c.err))
            ELSE o_pc' = "write" /\ UNCHANGED o_ret
  /\ UNCHANGED <<o_fn, o_dir, o_pages, o_page, o_obj, o_log>>
  /\ ObjectsFrame

\* downloadFile: if _, err := file.ReadFrom(result.Body); err != nil {
\*   return fmt.Errorf("failed to write to local file %s: %w", localPath, err) }; return nil
\* In downloadDirectory the loop goes on with the next object.
downloadFileWrite ==
  /\ o_pc = "write"
  /\ \E w \in ReadFrom(o_fs, CurrentPath, CurrentKey) :
       /\ o_fs' = w.fs
       /\ IF ~w.err.isNil
            THEN /\ ObjectsReturn(Wrap("failed to write to local file "
                                         \o CurrentPath \o ": ", w.err))
                 /\ UNCHANGED o_obj
          ELSE IF o_dir
            THEN o_pc' = "object" /\ o_obj' = o_obj + 1 /\ UNCHANGED o_ret
          ELSE ObjectsReturn(Nil) /\ UNCHANGED o_obj
  /\ UNCHANGED <<o_fn, o_dir, o_pages, o_page, o_log>>
  /\ ObjectsFrame

\* A slip: the first delete that fails ends the cleanup with its error.
CleanupObject_stopsOnFailure ==
  /\ o_pc = "object" /\ o_fn = "cleanupS3Objects"
  /\ IF o_obj = Len(CurrentPage)
       THEN o_pc' = "page" /\ UNCHANGED <<o_obj, o_log, o_ret>>
       ELSE \/ /\ o_log' = Append(o_log, DeleteEvent(CurrentKey, TRUE))
               /\ o_obj' = o_obj + 1 /\ UNCHANGED <<o_pc, o_ret>>
            \/ \E e \in S3Errors :
               /\ o_log' = Append(o_log, DeleteEvent(CurrentKey, FALSE))
               /\ ObjectsReturn(Wrap("failed to delete object from S3: ", e))
               /\ UNCHANGED o_obj
  /\ UNCHANGED <<o_fn, o_dir, o_pages, o_page, o_fs>>
  /\ ObjectsFrame

\* for _, obj := range page.Contents {
\*   if err := deleteS3Object(...); err != nil { log.Warn(...) } }
CleanupObject ==
  /\ o_pc = "object" /\ o_fn = "cleanupS3Objects"
  /\ IF o_obj = Len(CurrentPage)
       THEN o_pc' = "page" /\ UNCHANGED <<o_obj, o_log>>
       ELSE \E ok \in BOOLEAN :
              /\ o_log' = Append(o_log, DeleteEvent(CurrentKey, ok))
              /\ o_obj' = o_obj + 1 /\ UNCHANGED o_pc
  /\ UNCHANGED <<o_fn, o_dir, o_pages, o_page, o_fs, o_ret>>
  /\ ObjectsFrame

\* } else { return deleteS3Object(ctx, client, bucketName, s3Key) }
CleanupFile ==
  /\ o_pc = "delete"
  /\ \/ /\ o_log' = Append(o_log, DeleteEvent(ObjectPrefix, TRUE))
        /\ ObjectsReturn(Nil)
     \/ \E e \in S3Errors :
        /\ o_log' = Append(o_log, DeleteEvent(ObjectPrefix, FALSE))
        /\ ObjectsReturn(Wrap("failed to delete object from S3: ", e))
  /\ UNCHANGED <<o_fn, o_dir, o_pages, o_page, o_obj, o_fs>>
  /\ ObjectsFrame

InitObjects ==
  /\ ClassifierOff /\ RetryOff /\ SSMOff /\ CheckCLIOff /\ TransferOff
  /\ KeysOff /\ FunctionOff /\ CommandLineOff /\ EarlierOff
  /\ o_pc = "start"
  /\ o_fn \in {"downloadFromS3", "cleanupS3Objects"}
  /\ o_dir \in BOOLEAN
  /\ o_pages \in (IF o_dir THEN Listings ELSE {<<>>})
  /\ o_page = 0 /\ o_obj = 0 /\ o_log = <<>>
  /\ o_fs \in (IF o_fn = "downloadFromS3" THEN LocalFileSystems ELSE {NoFiles})
  /\ o_ret = Nil

NextObjects ==
  \/ DownloadStart \/ CleanupStart \/ NextPage
  \/ DownloadObject \/ downloadFileGet \/ downloadFileCreate \/ downloadFileWrite
  \/ CleanupObject \/ CleanupFile

SpecObjects == InitObjects /\ [][NextObjects]_vars

(***************************************************************************)
(* Two invocations of ExecuteToRemoteWithClients, one after the other, for *)
(* two files that differ in their names only                               *)
(***************************************************************************)

\* transferConfig.Source of the invocations: regular files of the working
\* directory.
NamedSources == {"./report.txt", "./forbidden.txt"}

\* What is kept of an invocation that has returned from its upload phase.
Invocation == [path |-> uploadPath, log |-> r_log, ret |-> t_ret]

\* The program is run again, with the same configuration, for another file:
\* uploadPath := strings.TrimPrefix(transferConfig.Source, "./"), and the
\* upload phase starts under retryOperation.
ExecuteAgain ==
  /\ t_pc = "done" /\ t_at = "upload" /\ u_first = <<>>
  /\ u_first' = <<Invocation>>
  /\ \E source \in NamedSources :
       /\ TrimPrefix(source, "./") # uploadPath
       /\ uploadPath' = TrimPrefix(source, "./")
  /\ t_pc' = "upload" /\ t_at' = "" /\ t_ret' = Nil /\ t_log' = <<>>
  /\ RetryStarts
  /\ UNCHANGED <<IsDirectory, isDirectory, t_cleanups>>
  /\ UNCHANGED <<cvars, svars, kvars, gvars, vvars, lvars, ovars>>

InitTwice ==
  /\ ClassifierOff
  /\ SSMOff
  /\ CheckCLIOff
  /\ ExtrasOff
  /\ r_pc = "top"
  /\ maxRetries \in 0..MaxRetriesBound
  /\ baseDelay = Int64(1)
  /\ attempt = 0 /\ lastErr = Nil /\ r_err = Nil /\ r_ret = Nil /\ r_log = <<>>
  /\ t_pc = "upload" /\ t_at = ""
  /\ IsDirectory = FALSE
  /\ isDirectory = FALSE
  /\ \E source \in NamedSources : uploadPath = TrimPrefix(source, "./")
  /\ t_log = <<>> /\ t_cleanups = 0 /\ t_ret = Nil

NextTwice == NextToRemote \/ ExecuteAgain

SpecTwice == InitTwice /\ [][NextTwice]_vars

(***************************************************************************)
(* Properties of retryOperation (checked under SpecRetry)                  *)
(***************************************************************************)

IsCall(ev) == ev.kind = "call"
IsSleep(ev) == ev.kind = "sleep"

\* The invocations of operation so far, and the sleeps so far, in order.
Calls == SelectSeq(r_log, IsCall)
Sleeps == SelectSeq(r_log, IsSleep)
NumCalls == Len(Calls)

\* The verdict of isRetryableError on each value the operation may return.
Verdict == [e \in OpErrors \cup {Nil} |-> isRetryableError(e)]

FailsRetryable(e) == ~e.isNil /\ Verdict[e]
FailsNonRetryable(e) == ~e.isNil /\ ~Verdict[e]

\* Every invocation so far failed with a retryable error.
AllRetryable == \A i \in 1..NumCalls : FailsRetryable(Calls[i].err)

\* C1: retryOperation invokes op at most maxRetries+1 times; exactly once when
\* the first invocation returns nil or a non-retryable error; exactly
\* maxRetries+1 times when every invocation fails with a retryable error.
C1_AttemptCount ==
  /\ NumCalls <= maxRetries + 1
  /\ (NumCalls >= 1 /\ (Calls[1].err.isNil \/ FailsNonRetryable(Calls[1].err)))
       => NumCalls = 1
  /\ (r_pc = "done" /\ AllRetryable) => NumCalls = maxRetries + 1
  /\ r_pc = "done" => NumCalls >= 1

C1_Witness ==
  r_pc = "done" /\ maxRetries = 2 /\ NumCalls = 3 /\ AllRetryable

\* Exact arithmetic for stating what a delay should be: naturals of twice the
\* width of an int64, wide enough for the products below not to wrap.
WideBytes == 2 * WordBytes

RECURSIVE AddFrom(_, _, _, _, _)
AddFrom(a, b, k, carry, n) ==
  IF k > n THEN <<>>
  ELSE LET t == a[k] + b[k] + carry
       IN  <<t % 256>> \o AddFrom(a, b, k + 1, t \div 256, n)

AddWide(a, b) == AddFrom(a, b, 1, 0, WideBytes)
MulWide(a, b) == MulWords(a, b, WideBytes)
Wide(v) == Word(v, WideBytes)

\* baseDelay * factor seconds, in nanoseconds, computed exactly.
ExactNanos(base, factor) ==
  MulWide(MulWide(Extend(base, WideBytes), Wide(factor)), Wide(1000000000))

RECURSIVE TotalSlept(_)
TotalSlept(evs) ==
  IF evs = <<>> THEN Wide(0)
  ELSE AddWide(Extend(Slept(Head(evs).d), WideBytes), TotalSlept(Tail(evs)))

\* C2: attempt 0 runs with no preceding sleep; before each attempt k >= 1 the
\* executor sleeps exactly once, for baseDelay * 2^(k-1) seconds; no sleep
\* follows the final attempt; a run that exhausts all retries has slept
\* baseDelay * (2^maxRetries - 1) seconds in total.
C2_ExponentialBackoff ==
  /\ \A i \in 1..Len(r_log) :
       /\ (IsCall(r_log[i]) /\ r_log[i].attempt = 0) => i = 1
       /\ (IsCall(r_log[i]) /\ r_log[i].attempt > 0) =>
            /\ i > 1
            /\ IsSleep(r_log[i - 1])
            /\ r_log[i - 1].attempt = r_log[i].attempt
       /\ IsSleep(r_log[i]) =>
            /\ i > 1
            /\ IsCall(r_log[i - 1])
            /\ Extend(Slept(r_log[i].d), WideBytes)
                 = ExactNanos(baseDelay, 2 ^ (r_log[i].attempt - 1))
  /\ r_pc = "done" => IsCall(r_log[Len(r_log)])
  /\ (r_pc = "done" /\ AllRetryable) =>
       TotalSlept(Sleeps) = ExactNanos(baseDelay, 2 ^ maxRetries - 1)

\* The part of C2 that the code meets: the same statement for base delays whose
\* backoff still fits a time.Duration.
BackoffWithinDuration ==
  baseDelay # HugeBaseDelay => C2_ExponentialBackoff

\* C3: a non-retryable error from op is returned as it is, at once: no further
\* invocation of op and no further sleep, whatever the retry budget.
C3_NonRetryableReturnedAtOnce ==
  /\ \A i \in 1..Len(r_log) :
       (IsCall(r_log[i]) /\ FailsNonRetryable(r_log[i].err)) => i = Len(r_log)
  /\ (r_pc = "done" /\ FailsNonRetryable(r_log[Len(r_log)].err)) =>
       r_ret = r_log[Len(r_log)].err

C3_Witness ==
  /\ r_pc = "done"
  /\ FailsNonRetryable(r_log[Len(r_log)].err)
  /\ NumCalls = 2 /\ maxRetries = 3

\* C4: when all maxRetries+1 invocations fail with retryable errors, the
\* result is a new error that names the retry count maxRetries and wraps the
\* error of the last invocation.
C4_ExhaustionWrapsLast ==
  (r_pc = "done" /\ AllRetryable /\ NumCalls = maxRetries + 1) =>
    LET last == Calls[NumCalls].err
    IN  /\ ~r_ret.isNil
        /\ r_ret.text = "operation failed after " \o IntToString(maxRetries)
                          \o " retries: " \o last.text
        /\ r_ret.code = last.code
        /\ r_ret # last

C4_Witness ==
  /\ r_pc = "done" /\ AllRetryable /\ NumCalls = maxRetries + 1
  /\ maxRetries = 2
  /\ Calls[1].err # Calls[3].err /\ Calls[2].err # Calls[3].err

\* C5: retryOperation returns nil iff its last invocation of op returned nil;
\* a nil at attempt k ends the run with exactly k+1 invocations and nothing
\* after it.
C5_NilIffLastNil ==
  /\ r_pc = "done" => (r_ret.isNil <=> Calls[NumCalls].err.isNil)
  /\ \A i \in 1..Len(r_log) :
       (IsCall(r_log[i]) /\ r_log[i].err.isNil) =>
         /\ i = Len(r_log)
         /\ NumCalls = r_log[i].attempt + 1

C5_Witness ==
  /\ r_pc = "done" /\ r_ret.isNil
  /\ NumCalls = 3 /\ FailsRetryable(Calls[1].err) /\ FailsRetryable(Calls[2].err)

(***************************************************************************)
(* Properties of isRetryableError (checked under SpecClassify)             *)
(***************************************************************************)

\* The text of e contains the phrase, letter case ignored.
Mentions(e, phrase) == Contains(ToLower(e.text), ToLower(phrase))

PermissionPhrases ==
  {"access denied", "unauthorized", "forbidden",
   "invalid credentials", "permission denied", "not authorized"}

TransientPhrases ==
  {"connection reset", "connection refused", "timeout", "temporary failure",
   "TLS handshake timeout", "EOF", "i/o timeout"}

TransientCodes ==
  {"RequestTimeout", "ServiceUnavailable", "ThrottlingException",
   "RequestLimitExceeded", "TooManyRequestsException", "InternalError",
   "RequestThrottled", "Throttling"}

HasPermissionCode(e) == ~e.isNil /\ e.code \in PermissionCodes
HasPermissionPhrase(e) == ~e.isNil /\ \E p \in PermissionPhrases : Mentions(e, p)
HasTransientCode(e) == ~e.isNil /\ e.code \in TransientCodes
HasTransientPhrase(e) == ~e.isNil /\ \E p \in TransientPhrases : Mentions(e, p)

\* C6: an error with a permission code or a permission phrase is never
\* retryable, whatever transient code or transient phrase it also carries.
C6_PermissionAlwaysWins ==
  (c_pc = "done" /\ (HasPermissionCode(c_err) \/ HasPermissionPhrase(c_err)))
    => c_out = FALSE

\* C7: an error with a transient code or a transient phrase, and with no
\* permission code and no permission phrase, is retryable.
C7_TransientIsRetryable ==
  (/\ c_pc = "done"
   /\ HasTransientCode(c_err) \/ HasTransientPhrase(c_err)
   /\ ~HasPermissionCode(c_err)
   /\ ~HasPermissionPhrase(c_err))
    => c_out = TRUE

C7_Witness ==
  /\ c_pc = "done" /\ c_out = TRUE
  /\ ~HasTransientCode(c_err) /\ Mentions(c_err, "EOF")
  /\ ~HasPermissionCode(c_err) /\ ~HasPermissionPhrase(c_err)

\* C8: nil is not retryable, and neither is an error that matches no
\* recognized code and no recognized phrase.
C8_DefaultNotRetryable ==
  (/\ c_pc = "done"
   /\ \/ c_err.isNil
      \/ /\ ~HasPermissionCode(c_err) /\ ~HasPermissionPhrase(c_err)
         /\ ~HasTransientCode(c_err) /\ ~HasTransientPhrase(c_err))
    => c_out = FALSE

C8_Witness ==
  /\ c_pc = "done" /\ c_out = FALSE /\ ~c_err.isNil
  /\ ~HasPermissionCode(c_err) /\ ~HasPermissionPhrase(c_err)
  /\ ~HasTransientCode(c_err) /\ ~HasTransientPhrase(c_err)
  /\ c_err.code = "ValidationException"

(***************************************************************************)
(* Properties of runSSMCommand (checked under SpecSSM)                     *)
(***************************************************************************)

\* C9: at the first poll that fetches status Success, runSSMCommand returns
\* the captured standard output and a nil error, and neither fetches nor
\* sleeps again, however many earlier polls were non-terminal or failed.
C9_FirstSuccessReturns ==
  (invocationOutput.status = "Success") =>
    /\ s_pc = "done"
    /\ s_ret.isNil
    /\ s_out = invocationOutput.stdout
    /\ s_fetches = s_i + 1
    /\ s_sleeps = s_fetches

C9_Witness ==
  /\ s_pc = "done" /\ invocationOutput.status = "Success"
  /\ s_out = "/usr/bin/aws\n"
  /\ s_fetchErrs >= 1 /\ s_fetches >= s_fetchErrs + 2

\* C10: when no poll observes a terminal status, runSSMCommand makes exactly
\* 30 fetches, each after exactly one sleep of the fixed interval, and then
\* returns the polling-timeout error, which differs from every error made for
\* a remote Failed, Cancelled or TimedOut status.
C10_PollingTimeout ==
  /\ s_sleeps = s_fetches + (IF s_pc = "fetch" THEN 1 ELSE 0)
  /\ s_slept = 2 * s_sleeps
  /\ (s_pc = "done" /\ s_fetches >= 1 /\ ~s_terminal) =>
       /\ s_fetches = 30
       /\ s_sleeps = 30
       /\ s_out = ""
       /\ s_ret = NewError("command timed out waiting for completion")
       /\ \A st \in {"Failed", "Cancelled", "TimedOut"} : \A se \in Stderrs :
            s_ret # CommandFailedError(st, se)
       /\ ~Contains(s_ret.text, "command failed with status")
  /\ (s_pc # "done" /\ ~s_terminal) => s_ret.isNil

C10_Witness ==
  /\ s_pc = "done" /\ ~s_terminal /\ s_fetches = 30
  /\ s_fetchErrs >= 1 /\ s_fetchErrs < 30
  /\ s_ret.text = "command timed out waiting for completion"

\* The error of a fetch shows in the value err: as that value, under a
\* wrapping prefix, or by its API code.
CarriesFetchError(err) ==
  \E e \in FetchErrors :
    \/ err = e
    \/ Contains(err.text, e.text)
    \/ (e.code # "" /\ err.code = e.code)

\* C11: an error of GetCommandInvocation is never what runSSMCommand returns.
\* It uses up exactly one of the 30 polls (the loop counter moves on by one
\* for it, and fetches never exceed 30), so that a Success or a terminal
\* failure fetched after it is reported as such, and a run whose 30 fetches
\* all failed ends in the polling-timeout error.
C11_FetchErrorSwallowed ==
  /\ s_fetchErrs <= s_fetches /\ s_fetches <= maxAttempts
  /\ (s_pc = "loop") => s_fetches = s_i
  /\ (s_pc = "fetch") => s_fetches = s_i
  /\ (s_pc = "done" /\ ~s_ret.isNil) => ~CarriesFetchError(s_ret)
  /\ (s_pc # "done" /\ s_fetchErrs >= 1) => s_ret.isNil
  /\ (s_fetchErrs >= 1 /\ invocationOutput.status = "Success") =>
       s_pc = "done" /\ s_ret.isNil /\ s_out = invocationOutput.stdout
  /\ (s_fetchErrs >= 1
        /\ invocationOutput.status \in {"Failed", "Cancelled", "TimedOut"}) =>
       /\ s_pc = "done"
       /\ s_ret = CommandFailedError(invocationOutput.status, invocationOutput.stderr)
  /\ (s_fetchErrs = maxAttempts) =>
       \/ s_pc = "loop" /\ s_i = maxAttempts
       \/ s_pc = "done" /\ s_out = "" /\ s_ret = PollTimeoutError

\* A terminal failure reported after an earlier fetch had failed.
C11_Witness ==
  /\ s_pc = "done" /\ s_fetchErrs >= 1 /\ s_fetches = s_fetchErrs + 1
  /\ invocationOutput.status = "Failed"
  /\ s_ret = CommandFailedError("Failed", "connect timeout")

\* C12: at the first poll that fetches Failed, Cancelled or TimedOut,
\* runSSMCommand stops polling and returns an empty output with an error
\* whose text holds the status and the standard error of the command; an
\* output that is not empty is returned for Success only.
C12_TerminalFailureReturnsError ==
  /\ (invocationOutput.status \in {"Failed", "Cancelled", "TimedOut"}) =>
       /\ s_pc = "done"
       /\ s_out = ""
       /\ ~s_ret.isNil
       /\ s_ret.text = "command failed with status " \o invocationOutput.status
                         \o ": " \o invocationOutput.stderr
       /\ Contains(s_ret.text, invocationOutput.status)
       /\ Contains(s_ret.text, invocationOutput.stderr)
       /\ s_fetches = s_i + 1
       /\ s_sleeps = s_fetches
  /\ (s_out # "") =>
       s_pc = "done" /\ invocationOutput.status = "Success" /\ s_ret.isNil

\* A cancelled command that had printed to both streams, after polls that
\* saw it under way.
C12_Witness ==
  /\ s_pc = "done" /\ invocationOutput.status = "Cancelled"
  /\ invocationOutput.stdout = "/usr/bin/aws\n"
  /\ invocationOutput.stderr = "connect timeout"
  /\ s_out = ""
  /\ s_fetches >= 2 /\ s_fetchErrs = 0

\* C13: when SendCommand fails, runSSMCommand returns at once the error that
\* wraps it, without a sleep and without a fetch; and a run sends its command
\* exactly once.
C13_SendFailureReturnsAtOnce ==
  /\ s_sends <= 1
  /\ (s_pc # "send") => s_sends = 1
  /\ (~s_sendErr.isNil) =>
       /\ s_pc = "done"
       /\ s_out = ""
       /\ s_ret = Wrap("failed to send command: ", s_sendErr)
       /\ s_ret.text = "failed to send command: " \o s_sendErr.text
       /\ s_ret.code = s_sendErr.code
       /\ s_sleeps = 0 /\ s_slept = 0
       /\ s_fetches = 0

C13_Witness ==
  /\ s_pc = "done" /\ s_sends = 1
  /\ s_sendErr = APIError("ThrottlingException", "Rate exceeded")
  /\ s_ret.text = "failed to send command: api error ThrottlingException: Rate exceeded"
  /\ s_fetches = 0

(***************************************************************************)
(* Properties of checkAWSCLIInstalled                                      *)
(***************************************************************************)

\* C14: checkAWSCLIInstalled answers (false, nil) when its probe ended in a
\* remote Failed, Cancelled or TimedOut status; it hands on the error of
\* every other failed run, that of a failed SendCommand and the polling
\* timeout among them; and after a successful run it answers (true, nil) if
\* the output contains "/aws" and (false, nil) if not.
C14_ProbeOutcomeMapping ==
  (k_pc = "done") =>
    /\ (invocationOutput.status \in {"Failed", "Cancelled", "TimedOut"}) =>
         ~k_installed /\ k_err.isNil
    /\ (~s_sendErr.isNil) =>
         ~k_installed /\ ~k_err.isNil /\ k_err = s_ret
    /\ (s_ret = PollTimeoutError) =>
         ~k_installed /\ k_err = PollTimeoutError
    /\ (s_ret.isNil) =>
         k_err.isNil /\ (k_installed <=> Contains(s_out, "/aws"))

\* What does hold: the answer goes by the text of the error alone, so that
\* an error is handed on exactly when its text lacks "command failed".
ProbeMappedByText ==
  (k_pc = "done") =>
    /\ (invocationOutput.status \in {"Failed", "Cancelled", "TimedOut"}) =>
         ~k_installed /\ k_err.isNil
    /\ (~s_sendErr.isNil /\ ~Contains(s_sendErr.text, "command failed")) =>
         ~k_installed /\ k_err = s_ret
    /\ (~s_sendErr.isNil /\ Contains(s_sendErr.text, "command failed")) =>
         ~k_installed /\ k_err.isNil
    /\ (s_ret = PollTimeoutError) =>
         ~k_installed /\ k_err = PollTimeoutError
    /\ (s_ret.isNil) =>
         k_err.isNil /\ (k_installed <=> Contains(s_out, "/aws"))

(***************************************************************************)
(* Properties of the transfers                                             *)
(***************************************************************************)

\* Every return of runSSMCommand is one of RunOutcomes, of which the
\* transfers are run against CommandOutcomes.
RunOutcomesCoverSSM ==
  /\ (s_pc = "done") => [out |-> s_out, err |-> s_ret] \in RunOutcomes(Stdouts)
  /\ CommandOutcomes(Stdouts) \subseteq RunOutcomes(Stdouts)

\* The commands sent so far, in order.
CommandsSent == SelectSeq(t_log, LAMBDA ev : ev.op = "SendCommand")

\* The entries of t_log for operation op.
CallsOf(op) == SelectSeq(t_log, LAMBDA ev : ev.op = op)

\* Every call made so far ended without error.
AllSucceeded == \A j \in 1..Len(t_log) : t_log[j].ok

\* C15: in a ToRemote transfer whose tool check answers that the AWS CLI is
\* absent, or fails itself, the transfer returns an error, and neither the
\* "aws s3 cp" command nor the "ls -la" listing is ever sent: the probe stays
\* the only command.
C15_ToRemoteStopsWithoutTool ==
  (k_pc = "done" /\ (~k_installed \/ ~k_err.isNil)) =>
    /\ t_pc = "done"
    /\ ~t_ret.isNil
    /\ t_ret = IF ~k_err.isNil
                 THEN Wrap("failed to check AWS CLI installation: ", k_err)
                 ELSE NewError("AWS CLI is not installed on instance " \o SSMInstanceID)
    /\ \A j \in 1..Len(CommandsSent) :
         /\ CommandsSent[j].arg = "which aws"
         /\ ~Contains(CommandsSent[j].arg, "aws s3 cp")
         /\ ~Contains(CommandsSent[j].arg, "ls -la")
    /\ Len(CommandsSent) = 1

\* The upload went through, the probe ran but found no tool.
C15_Witness ==
  /\ t_pc = "done" /\ k_pc = "done" /\ ~k_installed /\ k_err.isNil
  /\ t_log[Len(t_log)] = SendEvent("which aws", TRUE)
  /\ Len(CallsOf("PutObject")) = 2
  /\ t_ret.text = "AWS CLI is not installed on instance i-0abc"

\* C16: in a ToRemote transfer no PutObject comes after a command; and when
\* every call succeeded and the tool was found, the transfer has returned nil
\* after the puts of all files followed by exactly three commands: the probe,
\* one "aws s3 cp" from the bucket to the destination, with --recursive
\* exactly for a directory, and the listing.
C16_ToRemoteHappyPath ==
  /\ \A i, j \in 1..Len(t_log) :
       (i < j /\ t_log[i].op = "SendCommand") => t_log[j].op # "PutObject"
  /\ (t_pc = "done" /\ AllSucceeded /\ k_pc = "done" /\ k_installed) =>
       /\ t_ret = Nil
       /\ Len(CommandsSent) = 3
       /\ CommandsSent[1].arg = "which aws"
       /\ CommandsSent[2].arg =
            "aws s3 cp s3://bcp-bucket/" \o uploadPath \o " /tmp/dest"
              \o (IF IsDirectory THEN " --recursive" ELSE "")
       /\ CommandsSent[3].arg = "ls -la /tmp/dest"
       /\ Len(t_log) = Len(CallsOf("PutObject")) + 3
       /\ CallsOf("PutObject") =
            IF IsDirectory
              THEN <<PutEvent("data/a.txt", TRUE), PutEvent("data/sub/b.txt", TRUE)>>
              ELSE <<PutEvent("report.txt", TRUE)>>

C16_Witness ==
  /\ t_pc = "done" /\ AllSucceeded /\ k_installed /\ IsDirectory
  /\ Len(t_log) = 5
  /\ t_log[4].arg = "aws s3 cp s3://bcp-bucket/data /tmp/dest --recursive"
  /\ t_ret = Nil

\* The listings sent so far.
ListingsSent == SelectSeq(t_log, LAMBDA ev : ev.op = "SendCommand" /\ ev.arg = "ls -la /tmp/dest")

\* C17: in a ToRemote transfer the listing is sent at most once, only after
\* the upload and the fetch command have succeeded, and once it has been sent
\* the transfer has returned nil, whether the listing succeeded or failed.
C17_ListingNeverFails ==
  /\ Len(ListingsSent) <= 1
  /\ (Len(ListingsSent) = 1) =>
       /\ t_pc = "done" /\ t_at = "verify"
       /\ t_ret = Nil
       /\ t_log[Len(t_log)] = ListingsSent[1]
       /\ \E j \in 1..Len(t_log) : t_log[j].op = "SendCommand" /\ t_log[j].ok
                                     /\ Contains(t_log[j].arg, "aws s3 cp")
  /\ (t_at = "verify") => Len(ListingsSent) = 1
  /\ (t_pc = "verify") => Len(ListingsSent) = 0

\* A listing that failed, after a fetch that went through at a retry.
C17_Witness ==
  /\ t_pc = "done" /\ t_ret = Nil
  /\ Len(ListingsSent) = 1 /\ ~ListingsSent[1].ok
  /\ Len(CommandsSent) >= 4

\* C18: in a FromRemote transfer the first call on any client is the tool
\* probe; and when the check answers that the AWS CLI is absent, or fails
\* itself, the transfer returns an error and the probe stays the only call:
\* no directory probe, no upload command, no GetObject, no ListObjectsV2, no
\* DeleteObject and no cleanup.
C18_FromRemoteChecksToolFirst ==
  /\ (Len(t_log) >= 1) =>
       t_log[1].op = "SendCommand" /\ t_log[1].arg = "which aws"
  /\ (t_pc # "precheck") => Len(t_log) >= 1 /\ k_pc = "done"
  /\ (k_pc = "done" /\ (~k_installed \/ ~k_err.isNil)) =>
       /\ t_pc = "done" /\ t_at = "precheck"
       /\ ~t_ret.isNil
       /\ t_ret = IF ~k_err.isNil
                    THEN Wrap("failed to check AWS CLI installation: ", k_err)
                    ELSE NewError("AWS CLI is not installed on instance " \o SSMInstanceID)
       /\ Len(t_log) = 1
       /\ \A j \in 1..Len(t_log) :
            /\ t_log[j].op \notin {"GetObject", "ListObjectsV2", "DeleteObject", "PutObject"}
            /\ ~Contains(t_log[j].arg, "test -d")
            /\ ~Contains(t_log[j].arg, "aws s3 cp")
       /\ t_cleanups = 0

\* The check itself failed: the probe could not be sent.
C18_Witness ==
  /\ t_pc = "done" /\ k_pc = "done" /\ ~k_err.isNil
  /\ t_log = <<SendEvent("which aws", FALSE)>>
  /\ t_ret.text = "failed to check AWS CLI installation: failed to send command: "
                    \o "api error ThrottlingException: Rate exceeded"

\* C19: in a FromRemote transfer, once the download phase has succeeded
\* cleanupS3Objects is called exactly once, after every GetObject and on the
\* generated key only, and the transfer returns nil whether the cleanup
\* succeeded or failed; without a successful download no cleanup is made.
C19_CleanupOnceNeverFails ==
  /\ t_cleanups <= 1
  /\ (t_pc = "cleanup") => t_cleanups = 0
  /\ (t_at = "cleanup") =>
       /\ t_pc = "done" /\ t_cleanups = 1
       /\ t_ret = Nil
       /\ IF isDirectory
            THEN \E j \in 1..Len(t_log) :
                   /\ t_log[j].op = "ListObjectsV2" /\ t_log[j].arg = uploadPath
                   /\ \A i \in j + 1..Len(t_log) : t_log[i].op = "DeleteObject"
                   /\ \A i \in 1..j - 1 : t_log[i].op # "DeleteObject"
            ELSE /\ t_log[Len(t_log)].op = "DeleteObject"
                 /\ t_log[Len(t_log)].arg = uploadPath
                 /\ Len(CallsOf("DeleteObject")) = 1
       /\ \A j \in 1..Len(t_log) :
            t_log[j].op = "DeleteObject" =>
              /\ SubSeq(t_log[j].arg, 1, Len(uploadPath)) = uploadPath
              /\ \A i \in j..Len(t_log) : t_log[i].op # "GetObject"
  /\ (t_pc = "done" /\ t_at # "cleanup") =>
       /\ t_cleanups = 0
       /\ Len(CallsOf("DeleteObject")) = 0
       /\ ~t_ret.isNil
  /\ (t_cleanups = 1) => t_at = "cleanup"

\* A cleanup of a file whose DeleteObject failed, after a download that went
\* through.
C19_Witness ==
  /\ t_pc = "done" /\ t_at = "cleanup" /\ t_cleanups = 1 /\ ~isDirectory
  /\ t_log[Len(t_log)] = DeleteEvent(uploadPath, FALSE)
  /\ t_log[Len(t_log) - 1] = GetEvent(uploadPath, TRUE)
  /\ t_ret = Nil

\* The phases run under retryOperation, and the prefix under which the
\* transfer is to report the failure of each.
RetryPhases == {"upload", "fetch", "push", "download"}

PhaseLabel(phase) ==
  CASE phase = "upload" -> "failed to upload to S3: "
    [] phase = "fetch" -> "failed to download from S3 to remote instance: "
    [] phase = "push" -> "failed to upload from remote instance to S3: "
    [] phase = "download" -> "failed to download from S3: "

\* No call of a phase after the given one has been made.
NoLaterCall(phase) ==
  CASE phase = "upload" -> Len(CommandsSent) = 0
    [] phase = "fetch" ->
         /\ Len(ListingsSent) = 0
         /\ \A j \in 1..Len(t_log) :
              t_log[j].op = "PutObject"
                \/ t_log[j].arg = "which aws" \/ Contains(t_log[j].arg, "aws s3 cp s3://")
    [] phase = "push" ->
         \A j \in 1..Len(t_log) : t_log[j].op = "SendCommand"
    [] phase = "download" ->
         \A j \in 1..Len(t_log) : t_log[j].op # "DeleteObject"

\* A transfer that has returned from a phase under retry.
PhaseFailureReported ==
  (t_pc = "done" /\ t_at \in RetryPhases) =>
    /\ r_pc = "done" /\ ~r_ret.isNil
    /\ t_ret = Wrap(PhaseLabel(t_at), r_ret)
    /\ t_ret.text = PhaseLabel(t_at) \o r_ret.text
    /\ t_ret.code = r_ret.code
    /\ NoLaterCall(t_at)
    /\ Len(CallsOf("DeleteObject")) = 0
    /\ t_cleanups = 0

\* The step taken once retryOperation has returned an error.
PhaseFailureStep ==
  (r_pc = "done" /\ ~r_ret.isNil /\ t_pc # "done") =>
    /\ t_pc \in RetryPhases
    /\ t_pc' = "done" /\ t_at' = t_pc
    /\ t_ret' = Wrap(PhaseLabel(t_pc), r_ret)
    /\ t_log' = t_log /\ t_cleanups' = t_cleanups
    /\ UNCHANGED rvars

\* C20: in either direction, when a phase run under retryOperation ends in
\* an error, the next step of the transfer is to return that error under
\* the label of the phase ("failed to upload to S3: ", "failed to download
\* from S3 to remote instance: ", "failed to upload from remote instance to
\* S3: ", "failed to download from S3: "); no call of a later phase is made
\* and no object is deleted in compensation.
C20_PhaseFailureEndsTransfer ==
  [][PhaseFailureStep]_vars /\ []PhaseFailureReported

\* Retries used up in the download phase of a FromRemote transfer.
C20_Witness ==
  /\ t_pc = "done" /\ t_at = "download" /\ attempt = maxRetries + 1 /\ maxRetries >= 1
  /\ Contains(t_ret.text, "failed to download from S3: operation failed after ")
  /\ Len(CallsOf("GetObject")) >= 2

\* The keys of the objects the transfer has placed in the bucket: those of
\* its successful puts, and those the remote instance copied there once the
\* upload command of a FromRemote transfer has succeeded.
ObjectsPlaced ==
  { t_log[j].arg : j \in { i \in 1..Len(t_log) : t_log[i].op = "PutObject" /\ t_log[i].ok } }
  \cup (IF t_pc \in {"download", "cleanup"} \/ t_at \in {"download", "cleanup"}
          THEN { ObjectsUnder(uploadPath, isDirectory)[j] :
                   j \in 1..Len(ObjectsUnder(uploadPath, isDirectory)) }
          ELSE {})

\* C21: when a transfer in either direction has returned nil, a DeleteObject
\* has been issued for every object the transfer placed in the bucket.
C21_AutomaticCleanup ==
  (t_pc = "done" /\ t_ret = Nil) =>
    \A key \in ObjectsPlaced :
      \E j \in 1..Len(t_log) : t_log[j].op = "DeleteObject" /\ t_log[j].arg = key

\* What does hold: a ToRemote transfer never calls DeleteObject.
ToRemoteNeverDeletes ==
  (t_pc \in {"upload", "check", "fetch", "verify"}
     \/ t_at \in {"upload", "check", "fetch", "verify"}) =>
    Len(CallsOf("DeleteObject")) = 0 /\ t_cleanups = 0

(***************************************************************************)
(* Properties of the generated keys                                        *)
(***************************************************************************)

\* C22: any two FromRemote invocations against the same bucket, whenever
\* they start, are given different keys.
C22_GeneratedKeysDiffer ==
  \A i, j \in 1..Len(g_keys) : i # j => g_keys[i].key # g_keys[j].key

\* What does hold: two invocations are given the same key exactly when they
\* start within the same second.
KeysDifferAcrossSeconds ==
  \A i, j \in 1..Len(g_keys) :
    (g_keys[i].key = g_keys[j].key) <=> (g_keys[i].at \div 2 = g_keys[j].at \div 2)

(***************************************************************************)
(* Properties of package config (checked under SpecConfig)                 *)
(***************************************************************************)

\* The value LoadConstants must leave in a package variable for the
\* configured value set: the default when nothing or 0 is configured.
ExpectedConstant(set, default) ==
  IF set = Unset \/ set = <<0>> THEN default ELSE set[1]

\* C26: the package variables hold maxRetries = 3 and retryDelay = 2 before
\* anything is loaded and after LoadConstants when nothing is configured;
\* LoadConstants takes a configured non-zero value unchanged and replaces a
\* configured 0 by the default, 3 for max_retries and 2 for retry_delay.
C26_LoadConstantsDefaults ==
  /\ v_pc = "ready" => v_out.MaxRetries = 3 /\ v_out.RetryDelay = 2
  /\ v_pc = "done" =>
       /\ v_out.MaxRetries = ExpectedConstant(v_in.max_retries, 3)
       /\ v_out.RetryDelay = ExpectedConstant(v_in.retry_delay, 2)

\* LoadConstants has replaced a configured 0 and kept a configured 4.
C26_Witness ==
  /\ v_pc = "done"
  /\ v_in.max_retries = <<0>> /\ v_out.MaxRetries = 3
  /\ v_in.retry_delay = <<4>> /\ v_out.RetryDelay = 4

(***************************************************************************)
(* Properties of package validation                                        *)
(***************************************************************************)

\* s holds exactly one colon.
SplitsInTwo(s) == Cardinality(PositionsOf(s, ":")) = 1

\* What stands before and after the one colon of s, without the white space
\* around it.
BeforeColon(s) ==
  LET p == CHOOSE k \in PositionsOf(s, ":") : TRUE IN TrimSpace(SubSeq(s, 1, p - 1))
AfterColon(s) ==
  LET p == CHOOSE k \in PositionsOf(s, ":") : TRUE IN TrimSpace(SubSeq(s, p + 1, Len(s)))

\* s reads "i-" and then 8 to 17 lower-case hexadecimal digits.
LooksLikeInstanceID(s) ==
  \E n \in 8..17 :
    /\ Len(s) = n + 2
    /\ SubSeq(s, 1, 1) = "i" /\ SubSeq(s, 2, 2) = "-"
    /\ \A j \in 3..(n + 2) : SubSeq(s, j, j) \in HexDigits

\* C27 (checked under SpecSSMPath): ValidateSSMPath succeeds exactly when its
\* argument splits on ':' into exactly two parts, the trimmed first part
\* matches ^i-[0-9a-f]{8,17}$ and the trimmed second part is a non-empty
\* absolute path; on success it returns the two trimmed parts, on every
\* failure an error with both strings empty.
C27_ValidateSSMPath ==
  v_pc = "done" =>
    IF /\ SplitsInTwo(v_in)
       /\ LooksLikeInstanceID(BeforeColon(v_in))
       /\ AfterColon(v_in) # ""
       /\ SubSeq(AfterColon(v_in), 1, 1) = "/"
      THEN /\ v_out.err.isNil
           /\ v_out.instanceID = BeforeColon(v_in)
           /\ v_out.destination = AfterColon(v_in)
      ELSE /\ ~v_out.err.isNil
           /\ v_out.instanceID = "" /\ v_out.destination = ""

\* An argument with white space around both parts has been accepted and its
\* trimmed parts returned.
C27_Witness ==
  /\ v_pc = "done"
  /\ v_in = " i-12345678 : /tmp "
  /\ v_out.err.isNil
  /\ v_out.instanceID = "i-12345678" /\ v_out.destination = "/tmp"

\* s has the shape of an IPv4 address: digits and three dots, no group of
\* digits empty or longer than three.
ShapedLikeIPv4(s) ==
  /\ Cardinality(PositionsOf(s, ".")) = 3
  /\ \A j \in 1..Len(s) : SubSeq(s, j, j) \in DecimalDigits \cup {"."}
  /\ Len(s) >= 1 /\ SubSeq(s, 1, 1) # "." /\ SubSeq(s, Len(s), Len(s)) # "."
  /\ \A j \in 1..(Len(s) - 1) : SubSeq(s, j, j + 1) # ".."
  /\ \A j \in 1..(Len(s) - 3) :
       \E k \in j..(j + 3) : SubSeq(s, k, k) \notin DecimalDigits

\* s is a name the naming rules allow.
AllowedBucketName(s) ==
  /\ Len(s) >= 3 /\ Len(s) <= 63
  /\ \A j \in 1..Len(s) : SubSeq(s, j, j) \in LowerLetters \cup DecimalDigits \cup {".", "-"}
  /\ SubSeq(s, 1, 1) \notin {".", "-"}
  /\ SubSeq(s, Len(s), Len(s)) \notin {".", "-"}
  /\ ~ShapedLikeIPv4(s)
  /\ \A j \in 1..(Len(s) - 1) : SubSeq(s, j, j + 1) \notin {"..", ".-", "-."}

\* C28 (checked under SpecBucketName): ValidateBucketName returns nil exactly
\* for the names of 3 to 63 characters that hold only lower-case letters,
\* digits, dots and hyphens, start and end with a letter or digit, are not
\* shaped like an IPv4 address and have no two dots in a row and no dot next
\* to a hyphen; every other name yields an error.
C28_ValidateBucketName ==
  v_pc = "done" => (v_out.isNil <=> AllowedBucketName(v_in))

\* A name with a dot and a hyphen apart has been accepted.
C28_Witness ==
  /\ v_pc = "done"
  /\ v_in = "my-test.bucket1"
  /\ v_out.isNil

\* Names of each refused kind have been refused.
C28_RefusalsSeen ==
  v_pc = "done" /\ v_in \in {"192.168.1.1", "ab", "my.-bucket"} => ~v_out.isNil

(***************************************************************************)
(* Properties of the command line (checked under SpecCommandLine)          *)
(***************************************************************************)

\* The validations RunE makes, and the calls that belong to a transfer.
ValidationCalls == {"ValidateSourcePath", "ValidateSSMPath", "ValidateBucketName"}
TransferCalls == {"Execute", "PutObject", "SendCommand"}

\* The error RunE must return when the validation op refuses arg.
RefusalOf(op, arg) ==
  CASE op = "ValidateSourcePath" ->
         Wrap("invalid source path: ",
              ValidateSourcePath(arg, Stat(cli_fs, Clean(arg))).err)
    [] op = "ValidateSSMPath" ->
         Wrap("invalid SSM path: ", ValidateSSMPath(arg).err)
    [] op = "ValidateBucketName" ->
         Wrap("invalid bucket name: ", ValidateBucketName(arg))

\* No bucket name is given, by the flag or by the configuration.
NoBucketGiven == cli_args.bucket = "" /\ cli_args.configBucket = ""

\* C23: transfer.Execute, and with it every call on the object store or the
\* remote command service, comes only after the source path, the
\* instance-id:path argument and the bucket name have each passed validation
\* and a bucket name is present; when a check fails RunE returns that
\* validation error and no call of a transfer is ever made.
C23_ValidationBeforeTransfer ==
  /\ \A j \in 1..Len(cli_calls) :
       cli_calls[j].op \in TransferCalls =>
         /\ \A op \in ValidationCalls :
              \E i \in 1..(j - 1) : cli_calls[i].op = op /\ cli_calls[i].ok
         /\ ~NoBucketGiven
         /\ \E i \in 1..j : cli_calls[i].op = "Execute"
  /\ \A j \in 1..Len(cli_calls) :
       (cli_calls[j].op \in ValidationCalls /\ ~cli_calls[j].ok) =>
         /\ cli_pc = "done"
         /\ cli_err = RefusalOf(cli_calls[j].op, cli_calls[j].arg)
         /\ j = Len(cli_calls)
  /\ (cli_pc \in {"validate", "execute"} \/ (cli_pc = "done" /\ NoBucketGiven)) =>
       \A j \in 1..Len(cli_calls) : cli_calls[j].op \notin TransferCalls
  /\ (cli_pc = "done" /\ NoBucketGiven /\ \A j \in 1..Len(cli_calls) : cli_calls[j].ok) =>
       cli_err = BucketRequiredError

\* RunE has returned the error of a refused bucket name, after two
\* validations that passed.
C23_Witness ==
  /\ cli_pc = "done"
  /\ Len(cli_calls) = 3
  /\ cli_calls[3] = CallOf("ValidateBucketName", "Invalid-Bucket-Name", FALSE)
  /\ ~cli_err.isNil

\* A transfer has been started and has run to its end.
CommandLineTransferDone ==
  /\ cli_pc = "done" /\ cli_err.isNil
  /\ \E j \in 1..Len(cli_calls) : cli_calls[j].op = "Execute"

(***************************************************************************)
(* Properties of remote failures under retry (checked under SpecTransfer)  *)
(***************************************************************************)

\* The phases that hand a run of runSSMCommand to retryOperation.
CommandPhases == {"fetch", "push"}

\* The transfer is in phase, or has returned from it.
InPhase(phase) == t_pc = phase \/ (t_pc = "done" /\ t_at = phase)

\* e is what runSSMCommand returns for a Failed, Cancelled or TimedOut run.
IsRemoteFailure(e) ==
  /\ ~e.isNil
  /\ \E st \in {"Failed", "Cancelled", "TimedOut"} :
       LET head == "command failed with status " \o st \o ": "
       IN  Len(e.text) >= Len(head) /\ SubSeq(e.text, 1, Len(head)) = head

\* The text of e carries a transient signal and no permission signal.
TransientOnly(e) == HasTransientPhrase(e) /\ ~HasPermissionPhrase(e)

PutsMade == SelectSeq(cli_calls, LAMBDA ev : ev.op = "PutObject")

\* The upload phase of that transfer has ended without error.
UploadCompleted ==
  \/ cli_pc \in {"check", "fetch", "verify"}
  \/ cli_pc = "done" /\ \E j \in 1..Len(cli_calls) : cli_calls[j].op = "SendCommand"

\* The name of the file or directory at the clean path root.
NameOf(root) == SubSeq(root, LastSlash(root) + 1, Len(root))

\* The keys that are asked for: the name of a file; for a directory, its own
\* name and then the path of each of its files below it.
KeysAsked(localPath, dir) ==
  LET name == NameOf(Clean(localPath))
  IN  IF dir THEN [j \in 1..Len(WalkFiles) |-> name \o "/" \o WalkFiles[j]]
             ELSE <<name>>

\* C25: uploadToS3 of a regular file puts one object whose key is the base
\* name of the file; uploadToS3 of a directory puts one object per regular
\* file of the tree, each under the path of the file relative to the parent
\* of the root directory, with forward slashes, so that every key starts
\* with the name of the root.
C25_UploadKeys ==
  UploadCompleted =>
    LET localPath == UploadPathOf(cli_cfg.Source)
        keys == KeysAsked(localPath, Stat(cli_fs, localPath) = "dir")
    IN  PutsMade = [j \in 1..Len(keys) |-> PutEvent(keys[j], TRUE)]

\* The same holds of every local path that does not end with a slash.
UploadKeysWithoutTrailingSlash ==
  UploadCompleted =>
    LET localPath == UploadPathOf(cli_cfg.Source)
        keys == KeysAsked(localPath, Stat(cli_fs, localPath) = "dir")
    IN  SubSeq(localPath, Len(localPath), Len(localPath)) # "/" =>
          PutsMade = [j \in 1..Len(keys) |-> PutEvent(keys[j], TRUE)]

\* The runs of the fetch command by the transfer RunE started.
IsFetch(ev) ==
  /\ ev.op = "SendCommand"
  /\ Len(ev.arg) >= 10 /\ SubSeq(ev.arg, 1, 10) = "aws s3 cp "

\* The upload phase found a directory at the local path.
UploadedAsDirectory == Stat(cli_fs, UploadPathOf(cli_cfg.Source)) = "dir"

\* command copies from the key or prefix at in the bucket to the destination.
CopiesFrom(command, at) ==
  \E flag \in {"", " --recursive"} :
    command = "aws s3 cp s3://" \o cli_cfg.BucketName \o "/" \o at
                \o " " \o cli_cfg.Destination \o flag

\* key lies below the prefix at.
LiesBelow(key, at) ==
  Len(key) > Len(at) + 1 /\ SubSeq(key, 1, Len(at) + 1) = at \o "/"

\* C29: for every local source path, the s3:// URL of the fetch command
\* names what the upload phase wrote: the key of the one object put for a
\* file, and for a directory the prefix that all the keys put have in common.
C29_FetchAddressesUpload ==
  \A j \in 1..Len(cli_calls) : IsFetch(cli_calls[j]) =>
    /\ Len(PutsMade) >= 1
    /\ IF UploadedAsDirectory
         THEN \E n \in 1..Len(PutsMade[1].arg) :
                LET at == SubSeq(PutsMade[1].arg, 1, n)
                IN  /\ CopiesFrom(cli_calls[j].arg, at)
                    /\ \A i \in 1..Len(PutsMade) : LiesBelow(PutsMade[i].arg, at)
         ELSE CopiesFrom(cli_calls[j].arg, PutsMade[1].arg)

\* The same holds of the sources that name a file or directory of the
\* working directory by its name alone or after "./".
FetchAddressesUploadOfPlainNames ==
  PositionsOf(UploadPathOf(cli_cfg.Source), "/") = {} =>
    \A j \in 1..Len(cli_calls) : IsFetch(cli_calls[j]) =>
      /\ Len(PutsMade) >= 1
      /\ IF UploadedAsDirectory
           THEN /\ CopiesFrom(cli_calls[j].arg, UploadPathOf(cli_cfg.Source))
                /\ \A i \in 1..Len(PutsMade) :
                     LiesBelow(PutsMade[i].arg, UploadPathOf(cli_cfg.Source))
           ELSE CopiesFrom(cli_calls[j].arg, PutsMade[1].arg)

\* command ends with the flag --recursive.
IsRecursive(command) ==
  Len(command) >= 12 /\ SubSeq(command, Len(command) - 11, Len(command)) = " --recursive"

\* C30: in a transfer started from the command line, the fetch command
\* carries --recursive exactly when the upload phase treated the source as a
\* directory: the isDirectory field of the request agrees with what the
\* upload phase finds by its own os.Stat.
C30_RecursiveIffUploadedDirectory ==
  /\ UploadCompleted => (cli_cfg.IsDirectory <=> UploadedAsDirectory)
  /\ \A j \in 1..Len(cli_calls) : IsFetch(cli_calls[j]) =>
       (IsRecursive(cli_calls[j].arg) <=> UploadedAsDirectory)

\* The same holds of the sources that do not start with ".//": for them
\* ValidateSourcePath and uploadToS3 look at the same file.
RecursiveIffDirectoryWhenSamePath ==
  ~(Len(cli_cfg.Source) >= 3 /\ SubSeq(cli_cfg.Source, 1, 3) = ".//") =>
    /\ UploadCompleted => (cli_cfg.IsDirectory <=> UploadedAsDirectory)
    /\ \A j \in 1..Len(cli_calls) : IsFetch(cli_calls[j]) =>
         (IsRecursive(cli_calls[j].arg) <=> UploadedAsDirectory)


(***************************************************************************)
(* The directory flag of a FromRemote transfer (checked under              *)
(* SpecFromRemote)                                                         *)
(***************************************************************************)

\* strings.HasSuffix(s, suffix)
HasSuffix(s, suffix) ==
  Len(s) >= Len(suffix) /\ SubSeq(s, Len(s) - Len(suffix) + 1, Len(s)) = suffix

\* The probe has returned without error and the transfer has gone on.
Probed ==
  \/ t_pc \in {"push", "download", "cleanup"}
  \/ t_pc = "done" /\ t_at \in {"push", "download", "cleanup"}

\* The trimmed output of the probe equals "directory".
ProbeSaysDirectory == TrimSpace(s_out) = "directory"

\* The copy commands sent to the instance.
PushesSent ==
  SelectSeq(t_log, LAMBDA ev : ev.op = "SendCommand"
                                 /\ ev.arg \notin {"which aws", CheckDirCommand(RemoteSource)})

\* The calls on the S3 client, in order.
S3Calls == SelectSeq(t_log, LAMBDA ev : ev.op # "SendCommand")

\* cleanupS3Objects has run.
CleanedUp == t_pc = "done" /\ t_at = "cleanup"

\* The position in S3Calls of the last GetObject, 0 if there is none.
LastGet ==
  LET gets == { i \in 1..Len(S3Calls) : S3Calls[i].op = "GetObject" }
  IN  IF gets = {} THEN 0 ELSE CHOOSE i \in gets : \A j \in gets : j <= i

\* The calls of the download phase and those of the cleanup.
DownloadCalls == SubSeq(S3Calls, 1, IF CleanedUp THEN LastGet ELSE Len(S3Calls))
CleanupCalls == IF CleanedUp THEN SubSeq(S3Calls, LastGet + 1, Len(S3Calls)) ELSE <<>>

\* C31: in a FromRemote transfer the flag isDirectory is true iff the trimmed
\* output of the probe equals "directory", and it alone governs the later
\* steps: the copy command sent to the instance ends with --recursive, the
\* download lists the prefix and the cleanup lists the prefix, each iff the
\* flag is true (otherwise the download gets, and the cleanup deletes, the
\* one key uploadPath); this holds whatever transferConfig.IsDirectory is.
C31_ProbeFlagGoverns ==
  Probed =>
    /\ isDirectory = ProbeSaysDirectory
    /\ \A i \in 1..Len(PushesSent) :
         /\ HasSuffix(PushesSent[i].arg, " --recursive") <=> ProbeSaysDirectory
         /\ PushesSent[i].arg = CopyCommand(RemoteSource, S3URL(uploadPath), ProbeSaysDirectory)
    /\ DownloadCalls # <<>> =>
         /\ (DownloadCalls[1] \in {ListEvent(uploadPath, TRUE), ListEvent(uploadPath, FALSE)})
              <=> ProbeSaysDirectory
         /\ (\E i \in 1..Len(DownloadCalls) : DownloadCalls[i].op = "ListObjectsV2")
              <=> ProbeSaysDirectory
         /\ ~ProbeSaysDirectory =>
              \A i \in 1..Len(DownloadCalls) :
                DownloadCalls[i].op = "GetObject" /\ DownloadCalls[i].arg = uploadPath
    /\ CleanedUp =>
         /\ CleanupCalls # <<>>
         /\ (CleanupCalls[1] \in {ListEvent(uploadPath, TRUE), ListEvent(uploadPath, FALSE)})
              <=> ProbeSaysDirectory
         /\ ~ProbeSaysDirectory =>
              CleanupCalls \in {<<DeleteEvent(uploadPath, TRUE)>>, <<DeleteEvent(uploadPath, FALSE)>>}

\* The request says the source is a directory and the probe printed "file":
\* the copy command was sent without --recursive, the one key was fetched
\* and the one key was deleted.
C31_Witness ==
  /\ IsDirectory /\ s_out = "file\n" /\ CleanedUp
  /\ Len(PushesSent) >= 1
  /\ ~HasSuffix(PushesSent[1].arg, " --recursive")
  /\ DownloadCalls = <<GetEvent(uploadPath, TRUE)>>
  /\ CleanupCalls = <<DeleteEvent(uploadPath, TRUE)>>

\* The request says the source is a file and the probe printed "directory".
C31_DirectoryDespiteRequest ==
  /\ ~IsDirectory /\ s_out = "directory\n" /\ CleanedUp
  /\ HasSuffix(PushesSent[1].arg, " --recursive")
  /\ DownloadCalls[1] = ListEvent(uploadPath, TRUE)
  /\ CleanupCalls[1] = ListEvent(uploadPath, TRUE)


(***************************************************************************)
(* The commands outside retryOperation (checked under SpecTransfer)        *)
(***************************************************************************)

\* The commands of checkAWSCLIInstalled and of the directory probe.
UnretriedCommands == {"which aws", CheckDirCommand(RemoteSource)}

\* How often command has been sent.
TimesSent(command) ==
  Len(SelectSeq(t_log, LAMBDA ev : ev.op = "SendCommand" /\ ev.arg = command))

\* This step sends command.
Sends(command) ==
  /\ Len(t_log') > Len(t_log)
  /\ t_log'[Len(t_log')].op = "SendCommand"
  /\ t_log'[Len(t_log')].arg = command

\* A step that sends one of the two commands sends it for the first time,
\* with no retryOperation under way; if the run fails, the step returns an
\* error from the transfer and leaves retryOperation alone.
UnretriedStep ==
  \A command \in UnretriedCommands : Sends(command) =>
    /\ Len(t_log') = Len(t_log) + 1
    /\ TimesSent(command) = 0
    /\ r_pc = "off" /\ r_log = <<>>
    /\ ~t_log'[Len(t_log')].ok =>
         /\ t_pc' = "done" /\ t_at' = t_pc /\ ~t_ret'.isNil
         /\ UNCHANGED rvars

\* No command is sent more than once, and a transfer that returned from the
\* check or the probe made that call last, made no call of retryOperation,
\* slept for no backoff, and returned an error.
UnretriedOnce ==
  /\ \A command \in UnretriedCommands : TimesSent(command) <= 1
  /\ (t_pc = "done" /\ t_at \in {"check", "precheck", "probe"}) =>
       /\ r_log = <<>>
       /\ ~t_ret.isNil
       /\ t_log # <<>>
       /\ t_log[Len(t_log)].op = "SendCommand"
       /\ t_log[Len(t_log)].arg \in UnretriedCommands
       /\ TimesSent(t_log[Len(t_log)].arg) = 1

\* C32: checkAWSCLIInstalled (in both directions) and the directory probe
\* (FromRemote) run outside retryOperation: each sends its command once per
\* transfer, and a failed run, retryable or not, makes the transfer return
\* an error at once, with no second send and no backoff sleep; a transfer
\* that has returned takes no further step.
C32_UnretriedCommands ==
  /\ [][UnretriedStep]_vars
  /\ [][t_pc # "done"]_vars
  /\ []UnretriedOnce

\* A ToRemote transfer has returned from the check on a throttled send, an
\* error isRetryableError calls retryable, after one "which aws".
C32_Witness ==
  /\ t_pc = "done" /\ t_at = "check"
  /\ t_ret = CheckFailedError(SendFailedError(APIError("ThrottlingException", "Rate exceeded")))
  /\ isRetryableError(t_ret)
  /\ TimesSent("which aws") = 1
  /\ r_log = <<>>

\* A FromRemote transfer has returned from the probe on a remote run that
\* failed with a timeout in its stderr, after one probe.
C32_ProbeAborts ==
  /\ t_pc = "done" /\ t_at = "probe"
  /\ isRetryableError(t_ret)
  /\ Contains(t_ret.text, "connect timeout")
  /\ TimesSent(CheckDirCommand(RemoteSource)) = 1
  /\ r_log = <<>>


(***************************************************************************)
(* Properties of downloadFromS3 and cleanupS3Objects (checked under        *)
(* SpecObjects)                                                            *)
(***************************************************************************)

\* The keys of all pages, in the order listed.
RECURSIVE KeysOfPages(_)
KeysOfPages(pages) ==
  IF pages = <<>> THEN <<>> ELSE Head(pages) \o KeysOfPages(Tail(pages))

\* The keys downloadDirectory is to fetch: all but the bare prefix.
WantedKeys ==
  SelectSeq(KeysOfPages(o_pages), LAMBDA key : ~IsBarePrefix(key, ObjectPrefix))

\* The calls of one operation made so far.
ObjectCalls(op) == SelectSeq(o_log, LAMBDA ev : ev.op = op)

\* The text of e begins with prefix.
ErrorBegins(e, prefix) ==
  ~e.isNil /\ Len(e.text) >= Len(prefix) /\ SubSeq(e.text, 1, Len(prefix)) = prefix

\* A call that failed is the last call made, and the function has returned.
FailedCallIsLast ==
  \A i \in 1..Len(o_log) : ~o_log[i].ok => i = Len(o_log) /\ o_pc = "done"

\* The gets made so far are for the first of the wanted keys, one each, in
\* the order listed, and one listing succeeded per page fetched.
GetsFollowListing ==
  LET gets == ObjectCalls("GetObject")
      lists == ObjectCalls("ListObjectsV2")
  IN /\ Len(gets) <= Len(WantedKeys)
     /\ \A j \in 1..Len(gets) : gets[j].arg = WantedKeys[j]
     /\ Len(SelectSeq(lists, LAMBDA ev : ev.ok)) = o_page
     /\ \A j \in 1..Len(lists) : lists[j].arg = ObjectPrefix

\* What downloadDirectory returns: nil after a get for each wanted key and
\* a listing for each page, with each object written under the destination
\* at its key less the prefix and a leading slash; else the error of the
\* listing or the get that failed (the last call made), or the error of a
\* local directory or file that could not be made or written.
DownloadDirectoryReturn ==
  o_pc = "done" =>
    IF o_ret.isNil
      THEN /\ Len(ObjectCalls("GetObject")) = Len(WantedKeys)
           /\ Len(ObjectCalls("ListObjectsV2")) = Len(o_pages)
           /\ \A i \in 1..Len(o_log) : o_log[i].ok
           /\ \A j \in 1..Len(WantedKeys) :
                LET path == LocalFilePath(Destination, ObjectPrefix, WantedKeys[j])
                IN  path \in DOMAIN o_fs.files /\ o_fs.files[path] = WantedKeys[j]
      ELSE \/ /\ o_log # <<>> /\ ~o_log[Len(o_log)].ok
              /\ o_log[Len(o_log)].op = "ListObjectsV2"
              /\ \E e \in S3Errors : o_ret = Wrap("failed to list S3 objects: ", e)
           \/ /\ o_log # <<>> /\ ~o_log[Len(o_log)].ok
              /\ o_log[Len(o_log)].op = "GetObject"
              /\ \E e \in S3Errors : o_ret = Wrap("failed to get object from S3: ", e)
           \/ /\ \A i \in 1..Len(o_log) : o_log[i].ok
              /\ \/ ErrorBegins(o_ret, "failed to create local directory ")
                 \/ ErrorBegins(o_ret, "failed to create directory for ")
                 \/ ErrorBegins(o_ret, "failed to create local file ")
                 \/ ErrorBegins(o_ret, "failed to write to local file ")

C33_ListingFailsMidway ==
  /\ o_fn = "downloadFromS3" /\ o_dir /\ o_pc = "done"
  /\ Len(ObjectCalls("ListObjectsV2")) = 2
  /\ Len(ObjectCalls("GetObject")) = 1
  /\ ErrorBegins(o_ret, "failed to list S3 objects: ")

\* A placeholder for a subdirectory was fetched into a file, and the
\* directory for the next key could not be made: the download returned a
\* local error with a listed key never asked for.
C33_PlaceholderBlocksDirectory ==
  /\ o_fn = "downloadFromS3" /\ o_dir /\ o_pc = "done"
  /\ ErrorBegins(o_ret, "failed to create directory for ")
  /\ Contains(o_ret.text, "not a directory")
  /\ Len(ObjectCalls("GetObject")) < Len(WantedKeys)
  /\ \A i \in 1..Len(o_log) : o_log[i].ok


\* The deletes made so far are for the first of the keys listed, one each,
\* in the order listed, whether earlier deletes failed or not.
DeletesFollowListing ==
  LET deletes == ObjectCalls("DeleteObject")
      lists == ObjectCalls("ListObjectsV2")
      keys == KeysOfPages(o_pages)
  IN /\ Len(deletes) <= Len(keys)
     /\ \A j \in 1..Len(deletes) : deletes[j].arg = keys[j]
     /\ Len(SelectSeq(lists, LAMBDA ev : ev.ok)) = o_page
     /\ \A j \in 1..Len(lists) :
          /\ lists[j].arg = ObjectPrefix
          /\ ~lists[j].ok => o_pc = "done" /\ lists[j] = o_log[Len(o_log)]

\* What cleanupS3Objects returns for a directory: nil after a delete for
\* every key of every page, failed or not; the error of the listing if a
\* page failed, which is then the last call.
CleanupDirectoryReturn ==
  o_pc = "done" =>
    IF o_ret.isNil
      THEN /\ Len(ObjectCalls("DeleteObject")) = Len(KeysOfPages(o_pages))
           /\ Len(ObjectCalls("ListObjectsV2")) = Len(o_pages)
           /\ \A i \in 1..Len(o_log) : o_log[i].op = "ListObjectsV2" => o_log[i].ok
      ELSE /\ o_log # <<>>
           /\ o_log[Len(o_log)] = ListEvent(ObjectPrefix, FALSE)
           /\ \E e \in S3Errors : o_ret = Wrap("failed to list S3 objects for cleanup: ", e)

\* What cleanupS3Objects does and returns for a file: one delete of the
\* key, and the error of that delete.
CleanupFileReturn ==
  /\ Len(o_log) <= 1
  /\ o_pc = "done" =>
       /\ o_log \in {<<DeleteEvent(ObjectPrefix, TRUE)>>, <<DeleteEvent(ObjectPrefix, FALSE)>>}
       /\ o_ret.isNil <=> o_log[1].ok
       /\ ~o_ret.isNil => \E e \in S3Errors : o_ret = Wrap("failed to delete object from S3: ", e)

\* C34: for a directory cleanupS3Objects issues one delete for every key of
\* every page listed under the prefix; a delete that fails neither stops the
\* deletes that follow nor makes the function return an error; a page that
\* fails to list ends the function with that error. For a file it issues
\* exactly one delete, of the key, and returns the error of that delete.
C34_CleanupS3Objects ==
  o_fn = "cleanupS3Objects" =>
    IF o_dir THEN DeletesFollowListing /\ CleanupDirectoryReturn
             ELSE CleanupFileReturn

\* A cleanup over two pages returned nil although its second delete failed,
\* and the delete on the second page was made after that failure.
C34_Witness ==
  /\ o_fn = "cleanupS3Objects" /\ o_dir /\ o_pc = "done" /\ o_ret.isNil
  /\ Len(o_pages) = 2
  /\ ObjectCalls("DeleteObject") =
       <<DeleteEvent(ObjectPrefix \o "/", TRUE), DeleteEvent(ObjectPrefix \o "/a.txt", FALSE),
         DeleteEvent(ObjectPrefix \o "/sub/b.txt", TRUE)>>

\* The one delete of a file's key failed and the cleanup returned its error.
C34_FileDeleteFails ==
  /\ o_fn = "cleanupS3Objects" /\ ~o_dir /\ o_pc = "done"
  /\ o_log = <<DeleteEvent(ObjectPrefix, FALSE)>>
  /\ ErrorBegins(o_ret, "failed to delete object from S3: ")


(***************************************************************************)
(* Deletes of a FromRemote transfer (checked under SpecFromRemote)         *)
(***************************************************************************)

\* The copy command of the instance has run to the end.
PushSucceeded ==
  \E i \in 1..Len(t_log) :
    t_log[i] = SendEvent(CopyCommand(RemoteSource, S3URL(uploadPath), isDirectory), TRUE)

\* The position of the first call of op in the log, 0 if there is none.
FirstCall(op) ==
  LET at == { i \in 1..Len(t_log) : t_log[i].op = op }
  IN  IF at = {} THEN 0 ELSE CHOOSE i \in at : \A j \in at : i <= j

\* The calls of the last attempt of the download made before position n:
\* from its listing on for a directory, its one get for a file.
LastDownloadBefore(n) ==
  LET starts == { i \in 1..n - 1 :
                    t_log[i].op = (IF isDirectory THEN "ListObjectsV2" ELSE "GetObject") }
  IN  IF starts = {} THEN <<>>
      ELSE SubSeq(t_log, CHOOSE i \in starts : \A j \in starts : j <= i, n - 1)

\* The objects of the transfer left in the bucket: those the instance
\* copied there, less those a delete took away.
ObjectsLeft ==
  IF ~PushSucceeded THEN {}
  ELSE { ObjectsUnder(uploadPath, isDirectory)[j] :
           j \in 1..Len(ObjectsUnder(uploadPath, isDirectory)) }
       \ { t_log[i].arg : i \in { k \in 1..Len(t_log) :
                                    t_log[k].op = "DeleteObject" /\ t_log[k].ok } }

\* A step that issues a delete is taken in the cleanup, after
\* retryOperation has returned nil for the download.
DeleteStep ==
  (\E i \in Len(t_log) + 1..Len(t_log') : t_log'[i].op = "DeleteObject") =>
    /\ t_pc = "cleanup"
    /\ r_pc = "off"
    /\ \A i \in 1..Len(t_log) : t_log[i].op # "DeleteObject"

\* Where a delete was issued, the attempt of the download before it went
\* through: each of its calls succeeded and every object was fetched.
DeletesFollowDownload ==
  FirstCall("DeleteObject") > 0 =>
    LET last == LastDownloadBefore(
                  IF isDirectory THEN FirstCall("DeleteObject") - 1
                                 ELSE FirstCall("DeleteObject"))
    IN /\ t_at = "cleanup"
       /\ last # <<>>
       /\ \A i \in 1..Len(last) : last[i].ok
       /\ Len(SelectSeq(last, LAMBDA ev : ev.op = "GetObject"))
            = (IF isDirectory
                 THEN Len(DownloadKeys(uploadPath, ObjectsUnder(uploadPath, TRUE)))
                 ELSE 1)

\* A transfer that returned from the download phase returned an error,
\* issued no delete, and left every object in the bucket.
FailedDownloadKeepsObjects ==
  (t_pc = "done" /\ t_at = "download") =>
    /\ ~t_ret.isNil
    /\ PushSucceeded
    /\ FirstCall("DeleteObject") = 0
    /\ ObjectsLeft = { ObjectsUnder(uploadPath, isDirectory)[j] :
                         j \in 1..Len(ObjectsUnder(uploadPath, isDirectory)) }

\* C35: a FromRemote transfer issues a delete only in the cleanup that
\* follows a download phase that returned nil; when the download phase
\* fails after the instance has copied the objects to the bucket, the
\* transfer returns an error and the objects stay in the bucket.
C35_DeleteOnlyAfterDownload ==
  /\ [][DeleteStep]_vars
  /\ [](DeletesFollowDownload /\ FailedDownloadKeepsObjects)

\* A directory was copied to the bucket, the download fetched one object
\* and was refused the next: the transfer has returned the error with the
\* three objects left in the bucket.
C35_Witness ==
  /\ t_pc = "done" /\ t_at = "download" /\ isDirectory
  /\ PushSucceeded
  /\ t_log[Len(t_log)] = GetEvent(uploadPath \o "/sub/b.txt", FALSE)
  /\ t_log[Len(t_log) - 1] = GetEvent(uploadPath \o "/a.txt", TRUE)
  /\ Contains(t_ret.text, "Access Denied")
  /\ Cardinality(ObjectsLeft) = 3


(***************************************************************************)
(* The local file of downloadFile (checked under SpecObjects)              *)
(***************************************************************************)

\* The files of the local file system, with their contents, change.
FilesChange == o_fs'.files # o_fs.files

\* A step that makes or changes a local file is a step of os.Create or of
\* ReadFrom on the path at hand, taken after the last call, a get of the
\* key at hand, succeeded; every other file is as before.
FileWrittenAfterGet ==
  FilesChange =>
    /\ o_pc \in {"create", "write"}
    /\ o_log # <<>>
    /\ o_log[Len(o_log)] = GetEvent(CurrentKey, TRUE)
    /\ \A path \in DOMAIN o_fs'.files :
         path # CurrentPath => path \in DOMAIN o_fs.files /\ o_fs'.files[path] = o_fs.files[path]

\* The step of a get that fails leaves the local file system as it was and
\* returns from the function.
FailedGetLeavesFiles ==
  (Len(o_log') > Len(o_log) /\ o_log'[Len(o_log')].op = "GetObject"
     /\ ~o_log'[Len(o_log')].ok) =>
    /\ o_fs' = o_fs
    /\ o_pc' = "done"
    /\ ErrorBegins(o_ret', "failed to get object from S3: ")

\* After downloadFile (for a single object) has returned on a failed get,
\* the destination is what it was at the start.
UntouchedAfterFailedGet ==
  (o_fn = "downloadFromS3" /\ ~o_dir /\ o_pc = "done"
     /\ o_log = <<GetEvent(ObjectPrefix, FALSE)>>) =>
    o_fs \in LocalFileSystems

\* C36: downloadFile creates or truncates the local file only after its
\* GetObject has succeeded; when the GetObject fails it returns with the
\* local file, existing or not, left exactly as it was.
C36_FileUntouchedOnFailedGet ==
  /\ [][FileWrittenAfterGet /\ FailedGetLeavesFiles]_vars
  /\ []UntouchedAfterFailedGet

\* The get for a destination that holds an older file failed: the older
\* file is still there with its contents.
C36_Witness ==
  /\ o_fn = "downloadFromS3" /\ ~o_dir /\ o_pc = "done"
  /\ o_log = <<GetEvent(ObjectPrefix, FALSE)>>
  /\ ErrorBegins(o_ret, "failed to get object from S3: ")
  /\ Destination \in DOMAIN o_fs.files
  /\ o_fs.files[Destination] = "old"

\* The get succeeded and the older file was truncated, but the write
\* failed: the file is there, empty.
C36_TruncatedAfterGet ==
  /\ o_fn = "downloadFromS3" /\ ~o_dir /\ o_pc = "done"
  /\ o_log = <<GetEvent(ObjectPrefix, TRUE)>>
  /\ ErrorBegins(o_ret, "failed to write to local file ")
  /\ o_fs.files[Destination] = ""


(***************************************************************************)
(* Commands in flight (checked under SpecTransfer)                         *)
(***************************************************************************)

\* A run of runSSMCommand of this transfer has returned the polling
\* timeout: its command was accepted and never seen in a terminal status.
\* The error is what retryOperation was handed (fetch, push), what
\* checkAWSCLIInstalled returned, or what the probe returned.
RunLeftInFlight ==
  \/ \E i \in 1..NumCalls : Calls[i].err = PollTimeoutError
  \/ k_err = PollTimeoutError
  \/ s_ret = PollTimeoutError

\* e is what a run returns whose command was seen in a terminal status or
\* was not accepted: nil (Success), a remote failure, or a failure to send.
RunSettled(e) ==
  \/ e.isNil
  \/ IsRemoteFailure(e)
  \/ ErrorBegins(e, "failed to send command: ")

\* This step makes a call on a client.
MakesCall == t_log' # t_log

\* After a run has returned the polling timeout no step makes a call or
\* sleeps for a backoff.
NoCallAfterPollTimeout ==
  RunLeftInFlight =>
    /\ ~MakesCall
    /\ r_log' = r_log
    /\ RunLeftInFlight'

\* A step that sends a command is taken when every run made before under
\* retryOperation, by the check and by the probe was settled.
SendsAfterSettled ==
  (Len(t_log') > Len(t_log) /\ t_log'[Len(t_log')].op = "SendCommand") =>
    /\ ~RunLeftInFlight
    /\ (t_pc \in CommandPhases) => \A i \in 1..NumCalls : RunSettled(Calls[i].err)
    /\ RunSettled(k_err) /\ RunSettled(s_ret)

\* A transfer that has returned after a polling timeout returned an error.
PollTimeoutFailsTransfer ==
  (RunLeftInFlight /\ t_pc = "done") => ~t_ret.isNil /\ Contains(t_ret.text, PollTimeoutError.text)

\* Under retryOperation the polling timeout is the last call of its phase,
\* and retryOperation returns it as it is.
PollTimeoutIsLastCall ==
  \A i \in 1..NumCalls : Calls[i].err = PollTimeoutError =>
    /\ i = NumCalls
    /\ r_pc \in {"after", "done"}
    /\ r_pc = "done" => r_ret = PollTimeoutError

\* C37: a transfer sends a command only when every command it sent before
\* was seen in a terminal status, or was refused by SendCommand: the runs
\* are made one after the other, and once a run has returned "command timed
\* out waiting for completion" (its command may still be running) neither
\* retryOperation nor a later phase makes any further call; the transfer
\* returns an error.
C37_NoSendWhileInFlight ==
  /\ [][NoCallAfterPollTimeout /\ SendsAfterSettled]_vars
  /\ [](PollTimeoutIsLastCall /\ PollTimeoutFailsTransfer)

\* The copy command of a ToRemote transfer with retries to spare was never
\* seen to end: the transfer has returned after that one send.
C37_Witness ==
  /\ t_pc = "done" /\ t_at = "fetch" /\ maxRetries >= 1
  /\ Calls = <<CallEvent(0, PollTimeoutError)>>
  /\ t_ret = Wrap("failed to download from S3 to remote instance: ", PollTimeoutError)
  /\ t_log[Len(t_log)].op = "SendCommand" /\ ~t_log[Len(t_log)].ok

\* The probe of a FromRemote transfer was never seen to end.
C37_ProbeLeftInFlight ==
  /\ t_pc = "done" /\ t_at = "probe"
  /\ s_ret = PollTimeoutError
  /\ TimesSent(CheckDirCommand(RemoteSource)) = 1


(***************************************************************************)
(* Termination and its bounds (checked under SpecAnswered)                 *)
(***************************************************************************)

\* The transfer, or the run of runSSMCommand, has returned.
Returned ==
  /\ t_pc # "off" => t_pc = "done"
  /\ s_pc # "off" => s_pc = "done"

\* The commands a transfer sends, the attempts retryOperation makes, and
\* the polls of one run stay within their bounds; a run sends once.
WithinBounds ==
  /\ Len(CommandsSent) <= maxRetries + 3
  /\ NumCalls <= maxRetries + 1
  /\ attempt <= maxRetries + 1
  /\ s_sends <= 1
  /\ s_fetches <= maxAttempts /\ s_sleeps <= maxAttempts /\ s_i <= maxAttempts

C38_ThirtyPolls ==
  /\ s_pc = "done" /\ s_fetches = maxAttempts /\ s_sleeps = maxAttempts
  /\ s_ret = PollTimeoutError


(***************************************************************************)
(* The retry decision and the context the wrapping layers add (checked     *)
(* under SpecTwice)                                                        *)
(***************************************************************************)

\* The invocations of the operation in a retry log.
AttemptsOf(log) == SelectSeq(log, IsCall)

\* The operation was invoked, and every invocation failed in PutObject with
\* the error e, which uploadFile wrapped with the name of the file.
AllFailedWith(log, path, e) ==
  /\ Len(AttemptsOf(log)) >= 1
  /\ \A i \in 1..Len(AttemptsOf(log)) : AttemptsOf(log)[i].err = PutFailedError(path, e)

\* Both invocations have returned from a failed upload phase.
BothFailedUpload == u_first # <<>> /\ t_pc = "done" /\ t_at = "upload"

\* C39: two invocations whose PutObject calls all failed with the same
\* error, for files that differ in their names only, get the same verdict
\* of isRetryableError on what the upload returned and make the same number
\* of attempts.
C39_SameFailureSameAttempts ==
  BothFailedUpload =>
    \A e \in S3Errors :
      (/\ AllFailedWith(u_first[1].log, u_first[1].path, e)
       /\ AllFailedWith(r_log, uploadPath, e))
        => /\ isRetryableError(PutFailedError(u_first[1].path, e))
                = isRetryableError(PutFailedError(uploadPath, e))
           /\ Len(AttemptsOf(u_first[1].log)) = Len(AttemptsOf(r_log))


(***************************************************************************)
(* What retryOperation returns for the loaded constants (checked under     *)
(* SpecLoaded)                                                             *)
(***************************************************************************)

\* retryOperation has returned an error.
ReturnedError == r_pc = "done" /\ ~r_ret.isNil

\* C40: for every maxRetries that LoadConstants hands over, retryOperation
\* returns an error only after it has invoked the operation at least once,
\* and the error it returns when the attempts are used up wraps a last
\* error that is not nil.
C40_ErrorOnlyAfterCall ==
  ReturnedError =>
    /\ NumCalls >= 1
    /\ ~lastErr.isNil
    /\ r_ret \in {lastErr, ExhaustedError(maxRetries, lastErr)}

\* For the values that are not negative the statement holds.
C40_ErrorOnlyAfterCallWhenNonNegative ==
  (ReturnedError /\ maxRetries >= 0) =>
    /\ NumCalls >= 1
    /\ ~lastErr.isNil
    /\ r_ret \in {lastErr, ExhaustedError(maxRetries, lastErr)}

\* A configured max_retries that is negative reaches retryOperation.
C40_NegativeLoaded == r_pc = "top" /\ maxRetries < 0

====
